---- MODULE Spec2Model ----
(***************************************************************************)
(* The opportunity pipeline of the arbitrage bot: the in-memory Store      *)
(* (services/memory_store.rs), the Engine event loop (arbitrage/engine.rs) *)
(* and the Executor (arbitrage/executor.rs).                               *)
(*                                                                         *)
(* Time is an integer clock `now`; one unit stands for 15 seconds, so the  *)
(* 30 s lifetime of an opportunity and the Engine's 30 s cleanup sleep are *)
(* two units.  Decimals are integers in basis points (1/10000).            *)
(*                                                                         *)
(* The specifications share the variables:                                 *)
(*   SpecStore            the Store driven through its public operations;   *)
(*   Spec                 the Engine event loop with the Store behind it;   *)
(*                        the handlers are driven with every value of their *)
(*                        message types (the channels carry                 *)
(*                        ArbitrageOpportunity and ArbitrageExecution       *)
(*                        values with public fields);                       *)
(*   LiveSpec             Spec with time that never stops and fair          *)
(*                        scheduling;                                       *)
(*   SpecResults          the Engine handlers fed with execution results of *)
(*                        every status through the Executor's clone of the  *)
(*                        sender;                                           *)
(*   SpecExecutor         the Executor driven through its public            *)
(*                        operations;                                       *)
(*   SpecExecutorStates   the same operations from a map holding executions *)
(*                        of every status;                                  *)
(*   SpecStoreExecutions  the Store's execution deque under every capacity; *)
(*   SpecHistory          the Engine's execution_history under SpecResults' *)
(*                        steps;                                            *)
(*   SpecStrategy         ArbitrageStrategy::is_opportunity_suitable over   *)
(*                        drawn strategies and opportunities;               *)
(*   SpecScanner          one Scanner cycle over drawn pools of one token   *)
(*                        pair;                                             *)
(*   SpecOpportunity      ArbitrageOpportunity::new with its two clock      *)
(*                        reads as separate steps;                          *)
(*   SpecMetrics          SpecResults with results that carry a cost and a  *)
(*                        profit, for the aggregate metrics;                *)
(*   SpecStoreCalls       the Store's save, get and cleanup with the last   *)
(*                        call recorded;                                    *)
(*   SpecPrice, SpecRisk, SpecValidate                                      *)
(*                        Pool::get_price, calculate_risk_score and the     *)
(*                        strategy validation, each called once on drawn    *)
(*                        arguments;                                        *)
(*   SpecScanCycle        one Scanner cycle over adapters that fail or      *)
(*                        return pools of several token pairs;              *)
(*   SpecStrategies       the Engine's add, update and remove of            *)
(*                        strategies;                                       *)
(*   SpecPipeline         the Scanner's cycles feeding the Engine;          *)
(*   SpecLocks            the Store's operations as sequences of lock       *)
(*                        acquisitions, called concurrently;                *)
(*   SpecCounters         execution results processed while the Store       *)
(*                        evicts and drops executions.                      *)
(***************************************************************************)
EXTENDS Integers, Sequences, FiniteSets, TLC

\* ------------------------------------------------------------------ bounds

\* Opportunity ids the Engine sees (uuid strings in the source).
NumIds == 2
\* Opportunity ids saved directly into the Store under SpecStore.
NumStoreIds == 3
\* The clock runs from 0 to MaxTime.
MaxTime == 3
\* Largest configured capacity (max_opportunities, max_executions,
\* max_concurrent_executions) that Init draws.
MaxCapacity == 2
\* Cap of the Store's total_opportunities counter (u64 in the source).
MaxSaves == 3
\* Number of execution uuids that can be generated.
MaxExecs == 2
\* Capacity of the execution channel (10000 in the source).
ChannelCapacity == 1
\* Largest number of pools the adapters return for one token pair.
MaxPools == 3
\* Largest pool reserve drawn.
MaxReserve == 2

\* ------------------------------------------------------- program constants

\* ArbitrageOpportunity::new: expiry = now + 30 s (two time units).
Lifetime == 2
\* main_loop: tokio::time::sleep(30 s) (two time units).
CleanupSleep == 2
\* MemoryStore::new: cleanup_interval = 300 s, kept longer than the
\* lifetime but shortened to fit the clock.
CleanupInterval == 3
\* cleanup_expired_data: executions older than 7 days are dropped,
\* shortened to fit the clock.
RetentionTime == 4
\* config.arbitrage.min_profit_threshold in basis points (validated > 0).
MinProfitThreshold == 50
\* load_strategies: the default strategy's minimum liquidity.
MinLiquidity == 1000

Ids == 1..NumIds
StoreIds == 1..NumStoreIds
Times == 0..MaxTime
NoKey == 0
\* No opportunity is being handled.
NoOpportunity == [id |-> NoKey]
\* No send is waiting.
NoExecution == [id |-> NoKey]
\* No call of the Executor has been recorded.
NoCall == [op |-> "none"]
\* Option<Decimal>: None, or Some(v) as <<v>>.
None == <<>>
Some(v) == <<v>>
\* if let Some(v) = option { total += v }
ValueOr0(option) == IF option = None THEN 0 ELSE option[1]
\* No function has been called on drawn arguments.
NoPureCall == [fn |-> "none"]

OpportunityStatus == {"Pending", "Executing", "Completed", "Failed", "Expired", "Cancelled"}
ExecutionStatus == {"Pending", "Executing", "Submitted", "Confirmed", "Failed", "Cancelled"}
RiskScore == {"Low", "Medium", "High", "Critical"}
DexType == {"Raydium", "Meteora", "Whirlpool", "Pump"}

RiskRank(r) == CASE r = "Low" -> 0 [] r = "Medium" -> 1 [] r = "High" -> 2 [] r = "Critical" -> 3

VARIABLES
    now,                      \* Utc::now()
    max_opportunities,        \* MemoryStore.max_opportunities
    max_executions,           \* MemoryStore.max_executions
    store_opportunities,      \* MemoryStore.opportunities: id -> opportunity
    store_executions,         \* MemoryStore.executions: deque of executions
    store_metrics,            \* MemoryStore.metrics
    next_cleanup,             \* next tick of the Store's cleanup interval
    oldest_key,               \* save_opportunity's local: the key it evicted, or NoKey
    store_strategies,         \* MemoryStore.strategies: id -> strategy
    store_locks,              \* per lock of the MemoryStore: who holds it and who waits
    store_calls,              \* the MemoryStore calls under way: what each is and where
    strategies,               \* ArbitrageEngine.strategies: id -> strategy
    active_opportunities,     \* ArbitrageEngine.active_opportunities: id -> opportunity
    executions,               \* ArbitrageEngine.executions: the history Vec
    execution_channel,        \* the mpsc channel behind execution_sender/receiver
    engine_pc,                \* where the Engine loop is
    engine_opportunity,       \* the opportunity process_opportunity is handling
    sleep_left,               \* time left of the sleep the current select! created
    last_discard,             \* why the last received opportunity was discarded, or "none"
    forwarded,                \* per id: executions forwarded since it entered the active map
    next_uuid,                \* executions created so far (Uuid::new_v4)
    max_concurrent_executions,\* ArbitrageExecutor.max_concurrent_executions
    active_executions,        \* ArbitrageExecutor.active_executions: id -> execution
    executor_send,            \* the execution whose send by execute_opportunity is waiting
    executor_call,            \* the last execute, cancel or retry call, or NoCall
    pools,                    \* the pools the adapters returned for one token pair
    scan_threshold,           \* config.arbitrage.min_profit_threshold
    scan_pc,                  \* where the Scanner task is
    found,                    \* the opportunities the last scan cycle found
    new_pc,                   \* where ArbitrageOpportunity::new is
    created,                  \* the opportunity ArbitrageOpportunity::new is building
    strategy,                 \* the strategy is_opportunity_suitable is called on
    candidate,                \* the opportunity it is called with
    suitable,                 \* its result, once it has returned
    pure_call,                \* the function called on drawn arguments, with the arguments
    pure_result               \* what the call returned, once it has returned

storeVars == <<max_opportunities, max_executions, store_opportunities, store_executions,
               store_metrics, next_cleanup, oldest_key, store_strategies, store_locks,
               store_calls>>
storeRest == <<store_strategies, store_locks, store_calls>>
engineVars == <<strategies, active_opportunities, executions, execution_channel,
                engine_pc, engine_opportunity, sleep_left, last_discard, forwarded>>
engineRest == <<strategies, active_opportunities, executions, execution_channel,
                engine_pc, engine_opportunity, last_discard, forwarded>>
executorVars == <<max_concurrent_executions, active_executions, executor_send, executor_call>>
pureVars == <<pools, scan_threshold, scan_pc, found, new_pc, created, strategy, candidate,
              suitable, pure_call, pure_result>>
vars == <<now, storeVars, engineVars, executorVars, next_uuid, pureVars>>

\* ------------------------------------------------------------------- maps

EmptyMap == <<>>
Put(m, k, v) == [x \in (DOMAIN m) \cup {k} |-> IF x = k THEN v ELSE m[x]]
Remove(m, k) == [x \in (DOMAIN m) \ {k} |-> m[x]]
Size(m) == Cardinality(DOMAIN m)

\* ---------------------------------------------------------- opportunities

\* An ArbitrageOpportunity created at time t: expiry is t + 30 s and the
\* status is Pending.  The remaining fields come from the shape s.
Opportunity(id, t, s) ==
    [id |-> id, timestamp |-> t, expiry |-> t + Lifetime, status |-> "Pending",
     net_profit |-> s.net_profit, profit_percentage |-> s.profit_percentage,
     risk_score |-> s.risk_score, buy_dex |-> s.buy_dex, sell_dex |-> s.sell_dex]

\* The field values the model draws: a profitable opportunity, one with the
\* net_profit of ArbitrageOpportunity::new (zero), and one too risky for the
\* default strategy.
GoodShape == [net_profit |-> 90, profit_percentage |-> 100, risk_score |-> "Low",
              buy_dex |-> "Raydium", sell_dex |-> "Meteora"]
ZeroProfitShape == [GoodShape EXCEPT !.net_profit = 0]
RiskyShape == [GoodShape EXCEPT !.risk_score = "Critical"]
Shapes == {GoodShape, ZeroProfitShape, RiskyShape}

\* ArbitrageOpportunity::is_expired: Utc::now() > self.expiry
IsExpired(o, t) == t > o.expiry

\* The variant that accepts a net profit equal to the threshold.
IsProfitableInclusive(o, threshold) == o.net_profit >= threshold

\* ArbitrageOpportunity::is_profitable
IsProfitable(o, threshold) == o.net_profit > threshold

\* ArbitrageOpportunity::update_status
UpdateStatus(o, status) == [o EXCEPT !.status = status]

\* ------------------------------------------------------------------ Store

\* min_by_key(|(_, opp)| opp.timestamp) over the HashMap: a key with the
\* smallest timestamp; which one among equals depends on the iteration
\* order of the map, so every one of them is possible.
NewestKeys(opps) ==
    {k \in DOMAIN opps : \A j \in DOMAIN opps : opps[k].timestamp >= opps[j].timestamp}
OldestKeys(opps) ==
    {k \in DOMAIN opps : \A j \in DOMAIN opps : opps[k].timestamp <= opps[j].timestamp}

\* The keys save_opportunity may evict: none below capacity or when the map
\* is empty (oldest_key is None), else one of the oldest.
EvictionChoices(opps, max) ==
    IF Size(opps) >= max /\ OldestKeys(opps) # {} THEN OldestKeys(opps) ELSE {NoKey}

\* The variant that inserts before it evicts.
SaveOpportunityInsertFirst(o, k) ==
    /\ store_metrics.total_opportunities < MaxSaves
    /\ k \in EvictionChoices(store_opportunities, max_opportunities)
    /\ store_opportunities' = Remove(Put(store_opportunities, o.id, o), k)
    /\ oldest_key' = k
    /\ store_metrics' = [store_metrics EXCEPT !.total_opportunities = @ + 1]
    /\ UNCHANGED storeRest

\* MemoryStore::save_opportunity with the evicted key k.
SaveOpportunity(o, k) ==
    /\ store_metrics.total_opportunities < MaxSaves
    /\ k \in EvictionChoices(store_opportunities, max_opportunities)
    /\ store_opportunities' = Put(Remove(store_opportunities, k), o.id, o)
    /\ oldest_key' = k
    /\ store_metrics' = [store_metrics EXCEPT !.total_opportunities = @ + 1]
    /\ UNCHANGED storeRest

\* MemoryStore::update_opportunity_status
UpdateOpportunityStatus(opps, id, status) ==
    IF id \in DOMAIN opps THEN [opps EXCEPT ![id] = UpdateStatus(@, status)] ELSE opps

\* The variant that drops the expired opportunities.
ExpireAndRemove(opps, t) == [k \in {x \in DOMAIN opps : opps[x].expiry >= t} |-> opps[k]]

\* The first part of cleanup_expired_data: each opportunity with
\* expiry < now is removed and reinserted with status Expired.
ExpireInPlace(opps, t) ==
    [k \in DOMAIN opps |-> IF opps[k].expiry < t THEN UpdateStatus(opps[k], "Expired") ELSE opps[k]]

\* The second part: executions.retain(|exec| exec.execution_time >= cutoff)
RECURSIVE Retain(_, _)
Retain(s, cutoff) ==
    IF s = <<>> THEN <<>>
    ELSE IF Head(s).execution_time >= cutoff THEN <<Head(s)>> \o Retain(Tail(s), cutoff)
    ELSE Retain(Tail(s), cutoff)

\* MemoryStore::background_cleanup: one tick of the interval followed by
\* cleanup_expired_data.  The interval's first tick is immediate and the
\* following ones are one period apart.
BackgroundCleanup ==
    /\ now >= next_cleanup
    /\ next_cleanup' = next_cleanup + CleanupInterval
    /\ store_opportunities' = ExpireInPlace(store_opportunities, now)
    /\ store_executions' = Retain(store_executions, now - RetentionTime)
    /\ store_metrics' = [store_metrics EXCEPT !.last_cleanup = now]
    /\ UNCHANGED <<max_opportunities, max_executions, oldest_key, storeRest>>

Earlier(t) == IF t > 0 THEN t - 1 ELSE 0

\* Time passes: the clock advances and the Engine's sleep runs down.
Tick ==
    /\ now < MaxTime
    /\ now' = now + 1
    /\ sleep_left' = Earlier(sleep_left)

StoreMetricsDefault ==
    [total_opportunities |-> 0, total_executions |-> 0, successful_executions |-> 0,
     total_profit |-> 0, total_fees |-> 0, last_cleanup |-> 0]

\* ArbitrageStrategy of load_strategies: the default strategy.
DefaultStrategy ==
    [id |-> "default", min_profit_threshold |-> MinProfitThreshold, risk_tolerance |-> "Medium",
     supported_dexes |-> DexType, min_liquidity |-> MinLiquidity]

\* The locks of the MemoryStore, none held: the RwLocks of opportunities,
\* strategies and executions and the Mutex of metrics.
StoreLocks == {"opportunities", "strategies", "executions", "metrics"}
NoLocks == [l \in StoreLocks |-> [held |-> {}, waiting |-> <<>>]]

\* The Store and the Engine after construction, but for the configured
\* capacities.
InitStoreEngine ==
    /\ now = 0
    /\ store_opportunities = EmptyMap
    /\ store_executions = <<>>
    /\ store_metrics = StoreMetricsDefault
    /\ next_cleanup = 0
    /\ oldest_key = NoKey
    /\ store_strategies = EmptyMap
    /\ store_locks = NoLocks
    /\ store_calls = EmptyMap
    /\ strategies = Put(EmptyMap, DefaultStrategy.id, DefaultStrategy)
    /\ active_opportunities = EmptyMap
    /\ executions = <<>>
    /\ execution_channel = <<>>
    /\ engine_pc = "select"
    /\ engine_opportunity = NoOpportunity
    /\ sleep_left = CleanupSleep
    /\ last_discard = "none"
    /\ forwarded = [id \in Ids |-> 0]
    /\ executor_send = NoExecution
    /\ executor_call = NoCall

\* No scan cycle has run and no function call is under way.
InitIdle ==
    /\ pools = <<>>
    /\ scan_threshold = MinProfitThreshold
    /\ scan_pc = "idle"
    /\ found = <<>>
    /\ new_pc = "idle"
    /\ created = NoOpportunity
    /\ strategy = DefaultStrategy
    /\ candidate = NoOpportunity
    /\ suitable = <<>>
    /\ pure_call = NoPureCall
    /\ pure_result = <<>>

\* The state after construction, but for the configured capacities.
InitRest ==
    /\ InitStoreEngine
    /\ next_uuid = 0
    /\ active_executions = EmptyMap
    /\ InitIdle

\* ------------------------------------------- SpecStore: the Store's operations

InitStore ==
    /\ max_opportunities \in 0..MaxCapacity
    /\ max_executions = MaxCapacity
    /\ max_concurrent_executions = MaxCapacity
    /\ InitRest

\* save_opportunity called with any id and any timestamp.
StoreSaveOpportunity ==
    /\ \E id \in StoreIds, t \in Times, k \in StoreIds \cup {NoKey} :
          SaveOpportunity(Opportunity(id, t, GoodShape), k)
    /\ UNCHANGED <<now, max_opportunities, max_executions, store_executions, next_cleanup>>
    /\ UNCHANGED <<engineVars, executorVars, pureVars, next_uuid>>

StoreBackgroundCleanup ==
    /\ BackgroundCleanup
    /\ UNCHANGED <<now, engineVars, executorVars, pureVars, next_uuid>>

StoreTick ==
    /\ Tick
    /\ UNCHANGED <<storeVars, engineRest, executorVars, pureVars, next_uuid>>

NextStore ==
    \/ StoreSaveOpportunity
    \/ StoreBackgroundCleanup
    \/ StoreTick

SpecStore == InitStore /\ [][NextStore]_vars

\* MemoryStore::get_opportunity
GetOpportunity(opps, id) == IF id \in DOMAIN opps THEN Some(opps[id]) ELSE None

\* SpecStoreCalls: the Store's operations with the last call recorded.
\* save_opportunity is called with any id and any timestamp, ...
StoreCallSaveOpportunity ==
    /\ \E id \in StoreIds, t \in Times, k \in StoreIds \cup {NoKey} :
          /\ SaveOpportunity(Opportunity(id, t, GoodShape), k)
          /\ pure_call' = [fn |-> "save_opportunity", opportunity |-> Opportunity(id, t, GoodShape)]
    /\ pure_result' = <<>>
    /\ UNCHANGED <<now, max_opportunities, max_executions, store_executions, next_cleanup>>
    /\ UNCHANGED <<engineVars, executorVars, next_uuid, pools, scan_threshold, scan_pc, found,
                   new_pc, created, strategy, candidate, suitable>>

\* ... get_opportunity with any id; `saved` is the opportunity the directly
\* preceding call saved, if that call was save_opportunity, ...
StoreCallGetOpportunity ==
    /\ \E id \in StoreIds :
          /\ pure_call' =
                [fn |-> "get_opportunity", opportunity_id |-> id,
                 saved |-> IF pure_call.fn = "save_opportunity" THEN Some(pure_call.opportunity)
                           ELSE None]
          /\ pure_result' = <<GetOpportunity(store_opportunities, id)>>
    /\ UNCHANGED <<now, storeVars, engineVars, executorVars, next_uuid, pools, scan_threshold,
                   scan_pc, found, new_pc, created, strategy, candidate, suitable>>

\* ... and the cleanup task runs in between.
StoreCallBackgroundCleanup ==
    /\ BackgroundCleanup
    /\ pure_call' = [fn |-> "background_cleanup"]
    /\ pure_result' = <<>>
    /\ UNCHANGED <<now, engineVars, executorVars, next_uuid, pools, scan_threshold, scan_pc,
                   found, new_pc, created, strategy, candidate, suitable>>

NextStoreCalls ==
    \/ StoreCallSaveOpportunity
    \/ StoreCallGetOpportunity
    \/ StoreCallBackgroundCleanup
    \/ StoreTick

SpecStoreCalls == InitStore /\ [][NextStoreCalls]_vars

\* ------------------------------------------------------------ executions

\* ArbitrageExecution::new (engine.rs): a fresh uuid, the opportunity, status
\* Pending.  `by` records which holder of the execution sender created the
\* record: the Engine or the Executor.
ArbitrageExecutionNew(o, uuid, t) ==
    [id |-> uuid, opportunity_id |-> o.id, execution_status |-> "Pending",
     execution_time |-> t, by |-> "engine", total_cost |-> None, actual_profit |-> None]

\* An execution record published through the Executor's clone of the sender.
PublishedExecution(oid, status, uuid, t) ==
    [id |-> uuid, opportunity_id |-> oid, execution_status |-> status,
     execution_time |-> t, by |-> "executor", total_cost |-> None, actual_profit |-> None]

\* The same with a cost and a profit (Option<Decimal>, in whole units).
PublishedResult(oid, status, uuid, t, cost, profit) ==
    [PublishedExecution(oid, status, uuid, t) EXCEPT
        !.total_cost = cost, !.actual_profit = profit]

\* MemoryStore::save_execution: pop_front at capacity, push_back, counters.
PushBounded(q, e, max) == IF Len(q) >= max /\ q # <<>> THEN Append(Tail(q), e) ELSE Append(q, e)
\* The variant whose total_executions follows the length of the deque.
SaveExecutionOfDeque(e) ==
    /\ store_executions' = PushBounded(store_executions, e, max_executions)
    /\ store_metrics' =
          [store_metrics EXCEPT
              !.total_executions = Len(PushBounded(store_executions, e, max_executions)),
              !.successful_executions = IF e.execution_status = "Confirmed" THEN @ + 1 ELSE @,
              !.total_profit = @ + ValueOr0(e.actual_profit),
              !.total_fees = @ + ValueOr0(e.total_cost)]

SaveExecution(e) ==
    /\ store_executions' = PushBounded(store_executions, e, max_executions)
    /\ store_metrics' =
          [store_metrics EXCEPT
              !.total_executions = @ + 1,
              !.successful_executions = IF e.execution_status = "Confirmed" THEN @ + 1 ELSE @,
              !.total_profit = @ + ValueOr0(e.actual_profit),
              !.total_fees = @ + ValueOr0(e.total_cost)]

\* SpecStoreExecutions: save_execution called with any execution, for every
\* configured max_executions.
InitStoreExecutions ==
    /\ max_opportunities = MaxCapacity
    /\ max_executions \in 0..MaxCapacity
    /\ max_concurrent_executions = MaxCapacity
    /\ InitRest

\* save_execution called with a new execution record of any status.  The
\* records are numbered in save order.
StoreSaveExecution ==
    /\ store_metrics.total_executions < MaxSaves
    /\ \E oid \in Ids, status \in ExecutionStatus :
          SaveExecution(PublishedExecution(oid, status, store_metrics.total_executions + 1, now))
    /\ UNCHANGED <<now, max_opportunities, max_executions, store_opportunities, next_cleanup,
                   oldest_key, storeRest>>
    /\ UNCHANGED <<engineVars, executorVars, pureVars, next_uuid>>

NextStoreExecutions ==
    \/ StoreSaveExecution
    \/ StoreBackgroundCleanup
    \/ StoreTick

SpecStoreExecutions == InitStoreExecutions /\ [][NextStoreExecutions]_vars

\* ----------------------------------------------------------------- Engine

\* The variant that leaves out the check of the sell pool's DEX.
IsOpportunitySuitableBuyOnly(s, o) ==
    /\ o.profit_percentage >= s.min_profit_threshold
    /\ RiskRank(o.risk_score) <= RiskRank(s.risk_tolerance)
    /\ o.buy_dex \in s.supported_dexes

\* ArbitrageStrategy::is_opportunity_suitable (models/arbitrage.rs)
IsOpportunitySuitable(s, o) ==
    /\ o.profit_percentage >= s.min_profit_threshold
    /\ RiskRank(o.risk_score) <= RiskRank(s.risk_tolerance)
    /\ o.buy_dex \in s.supported_dexes
    /\ o.sell_dex \in s.supported_dexes

\* SpecStrategy: is_opportunity_suitable called on any strategy and any
\* opportunity.  Profit is in basis points; the reserves are below or above
\* the minimum liquidity.
StrategyInputs ==
    [min_profit_threshold : {MinProfitThreshold},
     risk_tolerance : {"Low", "Medium", "Critical"},
     supported_dexes : {{"Raydium"}, {"Raydium", "Meteora"}, DexType},
     min_liquidity : {MinLiquidity}]

ReserveInputs == {MinLiquidity \div 2, MinLiquidity, 2 * MinLiquidity}

CandidateInputs ==
    [profit_percentage : {0, MinProfitThreshold, 100 * MinProfitThreshold},
     risk_score : {"Low", "Medium", "High"},
     buy_dex : {"Raydium", "Meteora"},
     sell_dex : {"Raydium", "Meteora", "Pump"},
     buy_reserve_a : ReserveInputs,
     buy_reserve_b : {MinLiquidity \div 2, MinLiquidity},
     sell_reserve_a : {MinLiquidity \div 2, MinLiquidity},
     sell_reserve_b : {MinLiquidity \div 2, MinLiquidity}]

InitStrategy ==
    /\ max_opportunities = MaxCapacity
    /\ max_executions = MaxCapacity
    /\ max_concurrent_executions = MaxCapacity
    /\ InitStoreEngine
    /\ next_uuid = 0
    /\ active_executions = EmptyMap
    /\ pools = <<>>
    /\ scan_threshold = MinProfitThreshold
    /\ scan_pc = "idle"
    /\ found = <<>>
    /\ new_pc = "idle"
    /\ created = NoOpportunity
    /\ strategy \in StrategyInputs
    /\ candidate \in CandidateInputs
    /\ suitable = <<>>
    /\ pure_call = NoPureCall
    /\ pure_result = <<>>

\* strategy.is_opportunity_suitable(&opportunity) returns.
CallIsOpportunitySuitable ==
    /\ suitable = <<>>
    /\ suitable' = <<IsOpportunitySuitable(strategy, candidate)>>
    /\ UNCHANGED <<now, storeVars, engineVars, executorVars, next_uuid, pools, scan_threshold,
                   scan_pc, found, new_pc, created, strategy, candidate, pure_call,
                   pure_result>>

NextStrategy == CallIsOpportunitySuitable

SpecStrategy == InitStrategy /\ [][NextStrategy]_vars

\* process_execution's match on the execution status.
MappedStatusIdentity(status) ==
    CASE status = "Confirmed" -> "Completed"
      [] status = "Failed" -> "Failed"
      [] status = "Cancelled" -> "Cancelled"
      [] OTHER -> "Pending"
MappedStatus(status) ==
    CASE status = "Confirmed" -> "Completed"
      [] status = "Failed" -> "Failed"
      [] status = "Cancelled" -> "Expired"
      [] OTHER -> "Pending"

\* The select! loop is entered again: a new 30 s sleep is created.
EnterSelect ==
    /\ engine_pc' = "select"
    /\ engine_opportunity' = NoOpportunity
    /\ sleep_left' = CleanupSleep

\* The uuid and Store counters are capped: an opportunity that could be
\* accepted is only received while an execution can still be created.
CanCreate == next_uuid < MaxExecs /\ store_metrics.total_opportunities < MaxSaves

\* The dedup check of process_opportunity.
AlreadyActiveNever(o) == FALSE
AlreadyActive(o) == o.id \in DOMAIN active_opportunities

\* The early returns of process_opportunity, in the order of the code: the
\* reason for which the opportunity o is discarded at time t, or "none".
DiscardReason(o, t) ==
    IF IsExpired(o, t) THEN "expired"
    ELSE IF ~(\E id \in DOMAIN strategies : IsOpportunitySuitable(strategies[id], o))
         THEN "unsuitable"
    ELSE IF AlreadyActive(o) THEN "duplicate"
    ELSE IF ~IsProfitable(o, scan_threshold) THEN "unprofitable"
    ELSE "none"

\* The variant that saves the opportunity to the Store before the checks.
EarlyReturnSaved(o) ==
    /\ store_opportunities' = Put(store_opportunities, o.id, o)
    /\ UNCHANGED <<max_opportunities, max_executions, store_executions, store_metrics,
                   next_cleanup, oldest_key, storeRest>>
    /\ UNCHANGED <<active_opportunities, executions, execution_channel, forwarded>>

\* An early `return Ok(())` of process_opportunity: nothing was written.
EarlyReturn(o) ==
    /\ UNCHANGED storeVars
    /\ UNCHANGED <<active_opportunities, executions, execution_channel, forwarded>>

\* The checks of process_opportunity on the opportunity o: it is discarded,
\* or the handler goes on to insert it.
ProcessOpportunity(o) ==
    /\ last_discard' = DiscardReason(o, now)
    /\ IF DiscardReason(o, now) # "none"
       THEN /\ EnterSelect
            /\ EarlyReturn(o)
       ELSE /\ engine_pc' = "insert"
            /\ engine_opportunity' = o
            /\ UNCHANGED <<sleep_left, storeVars, active_opportunities, executions,
                           execution_channel, forwarded>>

\* main_loop, first branch: an opportunity is received and
\* process_opportunity runs its checks.  The opportunity was created at some
\* time t <= now and carries any id and field values.  The clock is read
\* once, by is_expired; the strategies and the active map cannot change
\* while the handler runs, so the outcome of the checks is fixed here.  An
\* opportunity that passes them is inserted by EngineInsertOpportunity,
\* before which the clock may advance.
EngineRecvOpportunity ==
    /\ engine_pc = "select"
    /\ \E id \in Ids, t \in Times, s \in Shapes :
          LET o == Opportunity(id, t, s) IN
          /\ t <= now
          /\ t >= now - Lifetime - 1
          /\ CanCreate \/ ~IsProfitable(o, scan_threshold)
          /\ ProcessOpportunity(o)
    /\ UNCHANGED <<now, strategies, executorVars, pureVars, next_uuid>>

\* process_opportunity after its checks: the insert into the active map, the
\* save to the Store and the send of a new execution.  A send on a full
\* channel does not complete.
EngineInsertOpportunity ==
    /\ engine_pc = "insert"
    /\ LET o == engine_opportunity IN
       /\ active_opportunities' = Put(active_opportunities, o.id, o)
       /\ \E k \in Ids \cup {NoKey} : SaveOpportunity(o, k)
       /\ next_uuid' = next_uuid + 1
       /\ last_discard' = "none"
       /\ IF Len(execution_channel) < ChannelCapacity
          THEN /\ execution_channel' =
                     Append(execution_channel, ArbitrageExecutionNew(o, next_uuid + 1, now))
               /\ forwarded' = [forwarded EXCEPT ![o.id] = @ + 1]
               /\ EnterSelect
          ELSE /\ engine_pc' = "send_blocked"
               /\ UNCHANGED <<execution_channel, forwarded, engine_opportunity, sleep_left>>
    /\ UNCHANGED <<now, max_opportunities, max_executions, store_executions, next_cleanup,
                   strategies, executions, executorVars, pureVars>>

\* main_loop, second branch: process_execution on the received execution.
ProcessExecution(e) ==
    /\ active_opportunities' =
          IF e.opportunity_id \in DOMAIN active_opportunities
          THEN [active_opportunities EXCEPT
                   ![e.opportunity_id] = UpdateStatus(@, MappedStatus(e.execution_status))]
          ELSE active_opportunities
    /\ SaveExecution(e)
    /\ executions' = Append(executions, e)

EngineRecvExecution ==
    /\ engine_pc = "select"
    /\ execution_channel # <<>>
    /\ execution_channel' = Tail(execution_channel)
    /\ ProcessExecution(Head(execution_channel))
    /\ last_discard' = "none"
    /\ EnterSelect
    /\ UNCHANGED <<now, max_opportunities, max_executions, store_opportunities, next_cleanup,
                   oldest_key, storeRest, strategies, forwarded, executorVars, pureVars, next_uuid>>

\* The variant that takes every id for expired.
ExpiredIdsAll(opps, t) == DOMAIN opps

\* cleanup_expired_opportunities: the ids whose opportunity is expired.
ExpiredIds(opps, t) == {id \in DOMAIN opps : IsExpired(opps[id], t)}

RECURSIVE UpdateAll(_, _, _)
UpdateAll(opps, ids, status) ==
    IF ids = {} THEN opps
    ELSE LET id == CHOOSE x \in ids : TRUE
         IN  UpdateAll(UpdateOpportunityStatus(opps, id, status), ids \ {id}, status)

\* main_loop, third branch: the sleep created when select! was entered has
\* elapsed; cleanup_expired_opportunities runs.
EngineCleanup ==
    /\ engine_pc = "select"
    /\ sleep_left = 0
    /\ LET expired_ids == ExpiredIds(active_opportunities, now) IN
       /\ active_opportunities' =
             [id \in (DOMAIN active_opportunities) \ expired_ids |-> active_opportunities[id]]
       /\ store_opportunities' = UpdateAll(store_opportunities, expired_ids, "Expired")
       /\ forwarded' = [id \in Ids |-> IF id \in expired_ids THEN 0 ELSE forwarded[id]]
    /\ last_discard' = "none"
    /\ EnterSelect
    /\ UNCHANGED <<now, max_opportunities, max_executions, store_executions, store_metrics,
                   next_cleanup, oldest_key, storeRest, strategies, executions, execution_channel,
                   executorVars, pureVars, next_uuid>>

\* The Executor's clone of execution_sender (engine.rs:142, executor.rs:99):
\* an execution record for any opportunity id and with any status is sent on
\* the channel; the send waits while the channel is full.
ExecutorPublish ==
    /\ next_uuid < MaxExecs
    /\ Len(execution_channel) < ChannelCapacity
    /\ \E oid \in Ids, status \in ExecutionStatus :
          execution_channel' =
              Append(execution_channel, PublishedExecution(oid, status, next_uuid + 1, now))
    /\ next_uuid' = next_uuid + 1
    /\ UNCHANGED <<now, storeVars, strategies, active_opportunities, executions, engine_pc,
                   engine_opportunity, sleep_left, last_discard, forwarded, executorVars, pureVars>>

EngineBackgroundCleanup ==
    /\ BackgroundCleanup
    /\ UNCHANGED <<now, engineVars, executorVars, pureVars, next_uuid>>

EngineTick ==
    /\ Tick
    /\ UNCHANGED <<storeVars, engineRest, executorVars, pureVars, next_uuid>>

Init ==
    /\ max_opportunities = MaxCapacity
    /\ max_executions = MaxCapacity
    /\ max_concurrent_executions = MaxCapacity
    /\ InitRest

Next ==
    \/ EngineRecvOpportunity
    \/ EngineInsertOpportunity
    \/ EngineRecvExecution
    \/ EngineCleanup
    \/ EngineBackgroundCleanup
    \/ EngineTick

Spec == Init /\ [][Next]_vars

\* LiveSpec: the Engine loop under fair scheduling with time that never
\* stops.  Once the clock has reached MaxTime it stays there and every
\* recorded time moves one unit into the past instead (times older than
\* MaxTime units are kept at 0), which keeps all differences that are
\* smaller than MaxTime.
EarlierOpportunity(o) ==
    [o EXCEPT !.timestamp = Earlier(@), !.expiry = Earlier(@)]
EarlierExecution(e) == [e EXCEPT !.execution_time = Earlier(@)]

LiveTick ==
    /\ sleep_left' = Earlier(sleep_left)
    /\ IF now < MaxTime
       THEN /\ now' = now + 1
            /\ UNCHANGED <<store_opportunities, store_executions, store_metrics, next_cleanup,
                           active_opportunities, executions, execution_channel,
                           engine_opportunity>>
       ELSE /\ now' = now
            /\ store_opportunities' =
                  [k \in DOMAIN store_opportunities |-> EarlierOpportunity(store_opportunities[k])]
            /\ store_executions' =
                  [i \in DOMAIN store_executions |-> EarlierExecution(store_executions[i])]
            /\ store_metrics' = [store_metrics EXCEPT !.last_cleanup = Earlier(@)]
            /\ next_cleanup' = Earlier(next_cleanup)
            /\ active_opportunities' =
                  [k \in DOMAIN active_opportunities |-> EarlierOpportunity(active_opportunities[k])]
            /\ executions' = [i \in DOMAIN executions |-> EarlierExecution(executions[i])]
            /\ execution_channel' =
                  [i \in DOMAIN execution_channel |-> EarlierExecution(execution_channel[i])]
            /\ engine_opportunity' =
                  IF engine_pc = "select" THEN NoOpportunity
                  ELSE EarlierOpportunity(engine_opportunity)
    /\ UNCHANGED <<max_opportunities, max_executions, oldest_key, storeRest, strategies,
                   engine_pc,
                   last_discard, forwarded, executorVars, pureVars, next_uuid>>

NextLive ==
    \/ EngineRecvOpportunity
    \/ EngineInsertOpportunity
    \/ EngineRecvExecution
    \/ EngineCleanup
    \/ EngineBackgroundCleanup
    \/ LiveTick

\* Time advances; a handler that has been entered runs to its end; select!
\* polls its branches in random order, so a branch that is ready again and
\* again is eventually taken.
LiveSpec ==
    /\ Init
    /\ [][NextLive]_vars
    /\ WF_vars(LiveTick)
    /\ WF_vars(EngineInsertOpportunity)
    /\ SF_vars(EngineRecvExecution)
    /\ SF_vars(EngineCleanup)

\* SpecResults: the Engine's handlers with execution results of every
\* status arriving on the execution channel, within one clock instant.
NextResults ==
    \/ EngineRecvOpportunity
    \/ EngineInsertOpportunity
    \/ EngineRecvExecution
    \/ ExecutorPublish

SpecResults == Init /\ [][NextResults]_vars

\* SpecHistory: SpecResults for every configured max_executions from 1 on.
InitHistory ==
    /\ max_opportunities = MaxCapacity
    /\ max_executions \in 1..MaxCapacity
    /\ max_concurrent_executions = MaxCapacity
    /\ InitRest

SpecHistory == InitHistory /\ [][NextResults]_vars

\* ArbitrageEngine::get_metrics: the sums over the execution history.
RECURSIVE SumOf(_, _)
SumOf(execs, field) ==
    IF execs = <<>> THEN 0 ELSE ValueOr0(Head(execs)[field]) + SumOf(Tail(execs), field)
RECURSIVE CountConfirmed(_)
CountConfirmed(execs) ==
    IF execs = <<>> THEN 0
    ELSE (IF Head(execs).execution_status = "Confirmed" THEN 1 ELSE 0)
             + CountConfirmed(Tail(execs))

NetProfitGross(total_profit, total_fees) == total_profit
NetProfit(total_profit, total_fees) == total_profit - total_fees

GetMetrics(active, execs) ==
    [total_opportunities |-> Size(active),
     executed_opportunities |-> Len(execs),
     successful_executions |-> CountConfirmed(execs),
     total_profit |-> SumOf(execs, "actual_profit"),
     total_fees |-> SumOf(execs, "total_cost"),
     net_profit |-> NetProfit(SumOf(execs, "actual_profit"), SumOf(execs, "total_cost"))]

\* SpecMetrics: SpecResults with results that carry a cost and a profit.
ProfitInputs == {None, Some(0), Some(100)}
CostInputs == {None, Some(10)}

ExecutorPublishResult ==
    /\ next_uuid < MaxExecs
    /\ Len(execution_channel) < ChannelCapacity
    /\ \E oid \in Ids, status \in ExecutionStatus, cost \in CostInputs, profit \in ProfitInputs :
          execution_channel' =
              Append(execution_channel,
                     PublishedResult(oid, status, next_uuid + 1, now, cost, profit))
    /\ next_uuid' = next_uuid + 1
    /\ UNCHANGED <<now, storeVars, strategies, active_opportunities, executions, engine_pc,
                   engine_opportunity, sleep_left, last_discard, forwarded, executorVars, pureVars>>

NextMetrics ==
    \/ EngineRecvOpportunity
    \/ EngineInsertOpportunity
    \/ EngineRecvExecution
    \/ ExecutorPublishResult

SpecMetrics == Init /\ [][NextMetrics]_vars

\* --------------------------------------------------------------- Executor

\* execute_opportunity's ceiling check.
AtCeilingOffByOne(n, max) == n > max
AtCeilingNever(n, max) == FALSE
AtCeiling(n, max) == n >= max

\* The execution record execute_opportunity creates: status Executing.
ExecutorExecution(oid, uuid, t) ==
    [id |-> uuid, opportunity_id |-> oid, execution_status |-> "Executing",
     execution_time |-> t, by |-> "executor", error_message |-> "None",
     total_cost |-> None, actual_profit |-> None]

\* ArbitrageExecutor::execute_opportunity.  Over the ceiling the opportunity
\* is skipped; else the execution is inserted under its fresh uuid and sent.
\* The send waits while the channel is full; the Executor is borrowed
\* mutably meanwhile, so no other operation of it runs.
ExecuteOpportunity ==
    /\ executor_send = NoExecution
    /\ \E oid \in Ids :
          /\ IF AtCeiling(Size(active_executions), max_concurrent_executions)
             THEN UNCHANGED <<active_executions, execution_channel, next_uuid, executor_send>>
             ELSE /\ next_uuid < MaxExecs
                  /\ next_uuid' = next_uuid + 1
                  /\ LET e == ExecutorExecution(oid, next_uuid + 1, now) IN
                     /\ active_executions' = Put(active_executions, e.id, e)
                     /\ IF Len(execution_channel) < ChannelCapacity
                        THEN /\ execution_channel' = Append(execution_channel, e)
                             /\ UNCHANGED executor_send
                        ELSE /\ executor_send' = e
                             /\ UNCHANGED execution_channel
          /\ executor_call' =
                [op |-> "execute", id |-> oid,
                 before |-> IF Size(active_executions) >= max_concurrent_executions
                            THEN "full" ELSE "room"]
    /\ UNCHANGED <<now, storeVars, strategies, active_opportunities, executions, engine_pc,
                   engine_opportunity, sleep_left, last_discard, forwarded,
                   max_concurrent_executions, pureVars>>

\* The waiting send of execute_opportunity completes.
ExecutorSend ==
    /\ executor_send # NoExecution
    /\ Len(execution_channel) < ChannelCapacity
    /\ execution_channel' = Append(execution_channel, executor_send)
    /\ executor_send' = NoExecution
    /\ executor_call' = NoCall
    /\ UNCHANGED <<now, storeVars, strategies, active_opportunities, executions, engine_pc,
                   engine_opportunity, sleep_left, last_discard, forwarded,
                   max_concurrent_executions, pureVars, active_executions, next_uuid>>

Terminal == {"Confirmed", "Failed", "Cancelled"}

\* The variant in which the status check is wired in and moves an
\* execution on to Submitted.
RemoveCompletedAdvancing(execs) ==
    [id \in {x \in DOMAIN execs : execs[x].execution_status \notin Terminal} |->
        [execs[id] EXCEPT !.execution_status = "Submitted"]]

\* cleanup_completed_executions, and the removal at the end of
\* monitor_active_executions: entries in a terminal status are removed.
RemoveCompleted(execs) ==
    [id \in {x \in DOMAIN execs : execs[x].execution_status \notin Terminal} |-> execs[id]]

\* One iteration of ArbitrageExecutor::start.
ExecutorTick ==
    /\ executor_send = NoExecution
    /\ active_executions' = RemoveCompleted(RemoveCompleted(active_executions))
    /\ executor_call' = NoCall
    /\ UNCHANGED <<now, storeVars, engineVars, max_concurrent_executions, pureVars,
                   executor_send, next_uuid>>

\* The status of the execution id before a call, or "absent".
StatusOf(execs, id) == IF id \in DOMAIN execs THEN execs[id].execution_status ELSE "absent"

\* ArbitrageExecutor::cancel_execution: the status it may overwrite and the
\* status it writes.
CancelGuard(status) == TRUE
Cancel(execs, id) ==
    IF id \in DOMAIN execs /\ CancelGuard(execs[id].execution_status)
    THEN [execs EXCEPT ![id].execution_status = "Cancelled"]
    ELSE execs

CancelExecution ==
    /\ executor_send = NoExecution
    /\ \E id \in 1..MaxExecs :
          /\ active_executions' = Cancel(active_executions, id)
          /\ executor_call' =
                [op |-> "cancel", id |-> id, before |-> StatusOf(active_executions, id)]
    /\ UNCHANGED <<now, storeVars, engineVars, max_concurrent_executions, pureVars,
                   executor_send, next_uuid>>

\* ArbitrageExecutor::retry_execution
RetryGuardAny(status) == TRUE
RetryGuard(status) == status = "Failed"
Retry(execs, id) ==
    IF id \in DOMAIN execs /\ RetryGuard(execs[id].execution_status)
    THEN [execs EXCEPT ![id].execution_status = "Pending", ![id].error_message = "None"]
    ELSE execs

RetryExecution ==
    /\ executor_send = NoExecution
    /\ \E id \in 1..MaxExecs :
          /\ active_executions' = Retry(active_executions, id)
          /\ executor_call' =
                [op |-> "retry", id |-> id, before |-> StatusOf(active_executions, id)]
    /\ UNCHANGED <<now, storeVars, engineVars, max_concurrent_executions, pureVars,
                   executor_send, next_uuid>>

\* The receiving end of the channel (main_loop's execution_receiver.recv())
\* takes the oldest execution.
ChannelRecv ==
    /\ execution_channel # <<>>
    /\ execution_channel' = Tail(execution_channel)
    /\ UNCHANGED <<now, storeVars, strategies, active_opportunities, executions, engine_pc,
                   engine_opportunity, sleep_left, last_discard, forwarded, executorVars, pureVars, next_uuid>>

\* Time passes between the Executor's operations.
ExecutorClock ==
    /\ Tick
    /\ UNCHANGED <<storeVars, engineRest, executorVars, pureVars, next_uuid>>

InitExecutor ==
    /\ max_opportunities = MaxCapacity
    /\ max_executions = MaxCapacity
    /\ max_concurrent_executions \in 0..MaxCapacity
    /\ InitRest

NextExecutor ==
    \/ ExecuteOpportunity
    \/ ExecutorSend
    \/ ExecutorTick
    \/ CancelExecution
    \/ RetryExecution
    \/ ChannelRecv
    \/ ExecutorClock

SpecExecutor == InitExecutor /\ [][NextExecutor]_vars

\* SpecExecutorStates: the Executor's operations on an active set whose
\* executions are in any status.  monitor_active_executions,
\* cleanup_completed_executions and retry_execution are written for entries
\* in every ExecutionStatus; the status check that moves an execution on
\* (check_execution_status) is not called yet, so the statuses other than
\* Executing and Cancelled are drawn here.
HeldExecution(uuid, oid, status, err) ==
    [id |-> uuid, opportunity_id |-> oid, execution_status |-> status,
     execution_time |-> 0, by |-> "executor", error_message |-> err,
     total_cost |-> None, actual_profit |-> None]

HeldExecutions(n) ==
    [1..n -> {HeldExecution(0, oid, status, err) :
                 oid \in Ids, status \in ExecutionStatus, err \in {"None", "Some"}}]

InitExecutorStates ==
    /\ max_opportunities = MaxCapacity
    /\ max_executions = MaxCapacity
    /\ max_concurrent_executions = MaxCapacity
    /\ InitStoreEngine
    /\ InitIdle
    /\ \E n \in 0..MaxExecs :
          /\ n <= max_concurrent_executions
          /\ next_uuid = n
          /\ \E held \in HeldExecutions(n) :
                active_executions = [id \in 1..n |-> [held[id] EXCEPT !.id = id]]

NextExecutorStates ==
    \/ ExecuteOpportunity
    \/ ExecutorSend
    \/ ExecutorTick
    \/ CancelExecution
    \/ RetryExecution
    \/ ChannelRecv

SpecExecutorStates == InitExecutorStates /\ [][NextExecutorStates]_vars

\* ---------------------------------------------------------------- Scanner

\* Decimal values are exact fractions <<numerator, denominator>> in lowest
\* terms with a positive denominator (rust_decimal rounds at 28 digits,
\* which the values drawn here never reach).
RECURSIVE Gcd(_, _)
Gcd(a, b) == IF b = 0 THEN a ELSE Gcd(b, a % b)
Abs(x) == IF x < 0 THEN -x ELSE x
Frac(n, d) == LET g == Gcd(Abs(n), d) IN <<n \div g, d \div g>>
Zero == <<0, 1>>
FracLess(p, q) == p[1] * q[2] < q[1] * p[2]
FracSub(p, q) == Frac(p[1] * q[2] - q[1] * p[2], p[2] * q[2])
\* Decimal's `/` panics on a zero divisor; FracDiv is used on q # Zero only.
FracDiv(p, q) == Frac(p[1] * q[2], p[2] * q[1])
\* A threshold given in basis points.
BasisPoints(b) == Frac(b, 10000)

\* A pool of the token pair: its reserves, and whether its token_a is the
\* second token of the pair.
PoolOf(id, ra, rb, flipped) ==
    [id |-> id, reserve_a |-> ra, reserve_b |-> rb, flipped |-> flipped]

\* Pool::get_price for the pair's first token: None (NoPrice) when the
\* denominator reserve is not positive.
NoPrice == <<0, 0>>
GetPriceInverse(pool) ==
    IF ~pool.flipped
    THEN IF pool.reserve_a > 0 THEN Frac(pool.reserve_b, pool.reserve_a) ELSE NoPrice
    ELSE IF pool.reserve_b > 0 THEN Frac(pool.reserve_a, pool.reserve_b) ELSE NoPrice
GetPrice(pool) ==
    IF ~pool.flipped
    THEN IF pool.reserve_b > 0 THEN Frac(pool.reserve_a, pool.reserve_b) ELSE NoPrice
    ELSE IF pool.reserve_a > 0 THEN Frac(pool.reserve_b, pool.reserve_a) ELSE NoPrice

\* calculate_price_differences: the index pairs (i, j), i < j, in loop order.
RECURSIVE PairsFrom(_, _, _)
PairsFrom(i, j, n) ==
    IF i >= n THEN <<>>
    ELSE IF j > n THEN PairsFrom(i + 1, i + 2, n)
    ELSE <<<<i, j>>>> \o PairsFrom(i, j + 1, n)
IndexPairs(n) == PairsFrom(1, 2, n)

BothPriced(ps, ij) == GetPrice(ps[ij[1]]) # NoPrice /\ GetPrice(ps[ij[2]]) # NoPrice

\* The divisor of profit_percentage: price_b if price_a > price_b, else
\* price_a.
Divisor(price_a, price_b) == IF FracLess(price_b, price_a) THEN price_b ELSE price_a

\* The loop panics ("Division by zero") at the first pair whose divisor is
\* zero.
DividesByZero(ps) ==
    \E k \in 1..Len(IndexPairs(Len(ps))) :
        LET ij == IndexPairs(Len(ps))[k] IN
        /\ BothPriced(ps, ij)
        /\ Divisor(GetPrice(ps[ij[1]]), GetPrice(ps[ij[2]])) = Zero

\* The tuple pushed for one pair: (buy_pool, sell_pool, price_diff,
\* profit_percentage).
PriceDifference(pool_a, pool_b) ==
    LET price_a == GetPrice(pool_a)
        price_b == GetPrice(pool_b)
        price_diff == IF FracLess(price_b, price_a) THEN FracSub(price_a, price_b)
                      ELSE FracSub(price_b, price_a)
        profit_percentage == FracDiv(price_diff, Divisor(price_a, price_b))
    IN  IF FracLess(price_a, price_b)
        THEN [buy_pool |-> pool_a, sell_pool |-> pool_b, price_diff |-> price_diff,
              profit_percentage |-> profit_percentage]
        ELSE [buy_pool |-> pool_b, sell_pool |-> pool_a, price_diff |-> price_diff,
              profit_percentage |-> profit_percentage]

RECURSIVE Differences(_, _)
Differences(ps, pairs) ==
    IF pairs = <<>> THEN <<>>
    ELSE IF BothPriced(ps, Head(pairs))
         THEN <<PriceDifference(ps[Head(pairs)[1]], ps[Head(pairs)[2]])>>
                  \o Differences(ps, Tail(pairs))
         ELSE Differences(ps, Tail(pairs))

\* sort_by(|a, b| b.3.partial_cmp(&a.3)): a stable sort, largest profit first.
RECURSIVE InsertByProfit(_, _)
InsertByProfit(x, sorted) ==
    IF sorted = <<>> THEN <<x>>
    ELSE IF FracLess(Head(sorted).profit_percentage, x.profit_percentage)
         THEN <<x>> \o sorted
         ELSE <<Head(sorted)>> \o InsertByProfit(x, Tail(sorted))
RECURSIVE SortByProfit(_)
SortByProfit(ds) ==
    IF ds = <<>> THEN <<>>
    ELSE InsertByProfit(ds[Len(ds)], SortByProfit(SubSeq(ds, 1, Len(ds) - 1)))

\* OpportunityScanner::calculate_price_differences, when it does not panic.
CalculatePriceDifferences(ps) == SortByProfit(Differences(ps, IndexPairs(Len(ps))))

\* ArbitrageOpportunity::new: the prices and the profit are computed again
\* from the two pools; the clock is read once for timestamp (t1) and once
\* more for expiry (t2).
ArbitrageOpportunityNew(buy_pool, sell_pool, t1, t2) ==
    LET buy == IF GetPrice(buy_pool) = NoPrice THEN Zero ELSE GetPrice(buy_pool)
        sell == IF GetPrice(sell_pool) = NoPrice THEN Zero ELSE GetPrice(sell_pool)
        price_difference == IF FracLess(buy, sell) THEN FracSub(sell, buy) ELSE Zero
    IN  [buy_pool |-> buy_pool, sell_pool |-> sell_pool,
         buy_price |-> buy, sell_price |-> sell,
         price_difference |-> price_difference,
         profit_percentage |-> IF FracLess(Zero, buy) THEN FracDiv(price_difference, buy)
                               ELSE Zero,
         net_profit |-> 0,
         timestamp |-> t1, expiry |-> t2 + Lifetime, status |-> "Pending"]

\* The threshold test of find_arbitrage_opportunities.
MeetsThreshold(profit, threshold) == ~FracLess(profit, threshold)

\* find_arbitrage_opportunities for the pools of one token pair: fewer than
\* two pools are skipped; else an opportunity is built for every price
\* difference that meets the threshold.
RECURSIVE Retained(_, _, _)
Retained(ds, threshold, t) ==
    IF ds = <<>> THEN <<>>
    ELSE IF MeetsThreshold(Head(ds).profit_percentage, threshold)
         THEN <<ArbitrageOpportunityNew(Head(ds).buy_pool, Head(ds).sell_pool, t, t)>>
                  \o Retained(Tail(ds), threshold, t)
         ELSE Retained(Tail(ds), threshold, t)

FindArbitrageOpportunities(ps, threshold, t) ==
    IF Len(ps) < 2 THEN <<>>
    ELSE Retained(CalculatePriceDifferences(ps), threshold, t)

\* One iteration of OpportunityScanner::start: scan_opportunities on the
\* pools the adapters return.  A division by zero panics and ends the
\* Scanner task; else the opportunities found are sent and the task sleeps
\* until the next cycle.  The cycle runs within one clock instant.
ScanOpportunities ==
    /\ scan_pc \in {"idle", "sleep"}
    /\ IF Len(pools) >= 2 /\ DividesByZero(pools)
       THEN /\ scan_pc' = "panicked"
            /\ UNCHANGED found
       ELSE /\ scan_pc' = "sleep"
            /\ found' = FindArbitrageOpportunities(pools, BasisPoints(scan_threshold), now)
    /\ UNCHANGED <<now, storeVars, engineVars, executorVars, next_uuid, pools, scan_threshold,
                   new_pc, created, strategy, candidate, suitable, pure_call,
                   pure_result>>

\* The pools of the scenario with reserves (1,000,000 ; 1,000,000) and
\* (1,010,000 ; 1,000,000), in units of 10,000.
ScenarioPools == <<PoolOf(1, 100, 100, FALSE), PoolOf(2, 101, 100, FALSE)>>

\* The pool lists drawn: up to MaxPools pools with reserves up to MaxReserve
\* and either token order.
PoolInputs(n) ==
    {[i \in 1..n |-> PoolOf(i, f[i][1], f[i][2], f[i][3])] :
        f \in [1..n -> (0..MaxReserve) \X (0..MaxReserve) \X BOOLEAN]}

\* The thresholds drawn, in basis points: 0.5 %, 100 %, 150 %.
ThresholdInputs == {MinProfitThreshold, 200 * MinProfitThreshold, 300 * MinProfitThreshold}

InitScanner ==
    /\ max_opportunities = MaxCapacity
    /\ max_executions = MaxCapacity
    /\ max_concurrent_executions = MaxCapacity
    /\ InitStoreEngine
    /\ next_uuid = 0
    /\ active_executions = EmptyMap
    /\ \/ /\ \E n \in 0..MaxPools :
                \E f \in [1..n -> (0..MaxReserve) \X (0..MaxReserve) \X BOOLEAN] :
                    pools = [i \in 1..n |-> PoolOf(i, f[i][1], f[i][2], f[i][3])]
          /\ scan_threshold \in ThresholdInputs
       \/ /\ pools = ScenarioPools
          /\ scan_threshold = MinProfitThreshold
    /\ scan_pc = "idle"
    /\ found = <<>>
    /\ new_pc = "idle"
    /\ created = NoOpportunity
    /\ strategy = DefaultStrategy
    /\ candidate = NoOpportunity
    /\ suitable = <<>>
    /\ pure_call = NoPureCall
    /\ pure_result = <<>>

NextScanner == ScanOpportunities

SpecScanner == InitScanner /\ [][NextScanner]_vars

\* SpecOpportunity: ArbitrageOpportunity::new on any two pools, with the
\* clock running.
InitOpportunity ==
    /\ max_opportunities = MaxCapacity
    /\ max_executions = MaxCapacity
    /\ max_concurrent_executions = MaxCapacity
    /\ InitStoreEngine
    /\ next_uuid = 0
    /\ active_executions = EmptyMap
    /\ pools \in PoolInputs(2)
    /\ scan_threshold = MinProfitThreshold
    /\ scan_pc = "idle"
    /\ found = <<>>
    /\ new_pc = "idle"
    /\ created = NoOpportunity
    /\ strategy = DefaultStrategy
    /\ candidate = NoOpportunity
    /\ suitable = <<>>
    /\ pure_call = NoPureCall
    /\ pure_result = <<>>

\* new reads the clock for the timestamp field.
NewReadTimestamp ==
    /\ new_pc = "idle"
    /\ new_pc' = "timestamp"
    /\ created' = [id |-> NoKey, timestamp |-> now]
    /\ UNCHANGED <<now, storeVars, engineVars, executorVars, next_uuid, pools, scan_threshold,
                   scan_pc, found, strategy, candidate, suitable, pure_call,
                   pure_result>>

\* new reads the clock again for the expiry field and returns.
NewReadExpiry ==
    /\ new_pc = "timestamp"
    /\ new_pc' = "created"
    /\ created' = ArbitrageOpportunityNew(pools[1], pools[2], created.timestamp, now)
    /\ UNCHANGED <<now, storeVars, engineVars, executorVars, next_uuid, pools, scan_threshold,
                   scan_pc, found, strategy, candidate, suitable, pure_call,
                   pure_result>>

OpportunityTick ==
    /\ Tick
    /\ UNCHANGED <<storeVars, engineRest, executorVars, pureVars, next_uuid>>

NextOpportunity ==
    \/ NewReadTimestamp
    \/ NewReadExpiry
    \/ OpportunityTick

SpecOpportunity == InitOpportunity /\ [][NextOpportunity]_vars

\* ------------------------------------------------------------- pure calls

\* Decimal::MAX (79228162514264337593543950335), scaled down: a quotient
\* above it does not fit the 96-bit mantissa.
DecimalMax == 8

\* Decimal's `/` (impl Div for Decimal): it panics with "Division by zero"
\* on a zero divisor and with "Division overflowed" when the quotient does
\* not fit; the divisors used here are never negative.
DecimalDiv(p, q) ==
    IF q = Zero THEN "Division by zero"
    ELSE IF FracLess(Frac(DecimalMax, 1), FracDiv(Frac(Abs(p[1]), p[2]), q))
         THEN "Division overflowed"
         ELSE FracDiv(p, q)

Panics == {"Division by zero", "Division overflowed"}

\* Pool::get_price for any base token: the pool's tokens are mints, its
\* reserves Decimals.
PoolGetPrice(pool, base_token) ==
    IF base_token = pool.token_a
    THEN IF FracLess(Zero, pool.reserve_b) THEN DecimalDiv(pool.reserve_a, pool.reserve_b)
         ELSE NoPrice
    ELSE IF base_token = pool.token_b
         THEN IF FracLess(Zero, pool.reserve_a) THEN DecimalDiv(pool.reserve_b, pool.reserve_a)
              ELSE NoPrice
         ELSE NoPrice

\* The Decimals drawn as reserves: negative, zero, a fraction, small
\* integers and Decimal::MAX (the adapters parse reserves from the strings
\* of the DEX's API response).
DecimalInputs == {Frac(-1, 1), Zero, Frac(1, 2), Frac(1, 1), Frac(2, 1), Frac(DecimalMax, 1)}
Mints == {1, 2, 3}

\* The state before a call of fn on arguments drawn from args.
InitPureCall(calls) ==
    /\ max_opportunities = MaxCapacity
    /\ max_executions = MaxCapacity
    /\ max_concurrent_executions = MaxCapacity
    /\ InitStoreEngine
    /\ next_uuid = 0
    /\ active_executions = EmptyMap
    /\ pools = <<>>
    /\ scan_threshold = MinProfitThreshold
    /\ scan_pc = "idle"
    /\ found = <<>>
    /\ new_pc = "idle"
    /\ created = NoOpportunity
    /\ strategy = DefaultStrategy
    /\ candidate = NoOpportunity
    /\ suitable = <<>>
    /\ pure_call \in calls
    /\ pure_result = <<>>

\* The call returns (or panics).
Returns(result) ==
    /\ pure_result = <<>>
    /\ pure_result' = <<result>>
    /\ UNCHANGED <<now, storeVars, engineVars, executorVars, next_uuid, pools, scan_threshold,
                   scan_pc, found, new_pc, created, strategy, candidate, suitable, pure_call>>

\* SpecPrice: get_price called on any pool and any base token.
GetPriceCalls ==
    [fn : {"get_price"},
     token_a : Mints, token_b : Mints, reserve_a : DecimalInputs, reserve_b : DecimalInputs,
     base_token : Mints]

InitPrice == InitPureCall(GetPriceCalls)

CallGetPrice ==
    /\ pure_call.fn = "get_price"
    /\ Returns(PoolGetPrice(pure_call, pure_call.base_token))

NextPrice == CallGetPrice

SpecPrice == InitPrice /\ [][NextPrice]_vars

\* calculate_risk_score: the literals it compares with.  Profit is in basis
\* points: 5/1000 is 50, 5/100 is 500.
LowReserve == 1000
LowProfit == 50
HighProfit == 500
StaleHours == 24

\* The liquidity check of one pool.
LowLiquidityInverted(reserve_a, reserve_b) == reserve_a > LowReserve \/ reserve_b > LowReserve
LowLiquidity(reserve_a, reserve_b) == reserve_a < LowReserve \/ reserve_b < LowReserve

\* chrono's Duration::num_hours: whole hours, truncated toward zero.  Ages
\* are in half hours.
NumHours(age) == IF age >= 0 THEN age \div 2 ELSE -((-age) \div 2)

\* The match on the summed score.
RiskLevel(score) ==
    IF score <= 2 THEN "Low"
    ELSE IF score <= 4 THEN "Medium"
    ELSE IF score <= 6 THEN "High"
    ELSE "Critical"

\* ArbitrageOpportunity::calculate_risk_score; c holds the four reserves, the
\* profit percentage and the age of the buy pool's last update.
CalculateRiskScore(c) ==
    RiskLevel(
        (IF LowLiquidity(c.buy_reserve_a, c.buy_reserve_b) THEN 2 ELSE 0)
      + (IF LowLiquidity(c.sell_reserve_a, c.sell_reserve_b) THEN 2 ELSE 0)
      + (IF c.profit_percentage < LowProfit THEN 1
         ELSE IF c.profit_percentage > HighProfit THEN 3 ELSE 0)
      + (IF NumHours(c.pool_age) > StaleHours THEN 1 ELSE 0))

\* SpecRisk: calculate_risk_score called on reserves around 1000, profits
\* around both thresholds and ages around 24 hours (in half hours; -1 is a
\* last update ahead of the clock).
RiskReserveInputs == {0, LowReserve - 1, LowReserve, LowReserve + 1}
RiskProfitInputs == {0, LowProfit - 1, LowProfit, LowProfit + 1, HighProfit, HighProfit + 1}
AgeInputs == {-1, 0, 2 * StaleHours, 2 * StaleHours + 1, 2 * StaleHours + 2,
              2 * StaleHours + 3}

RiskCalls ==
    [fn : {"calculate_risk_score"},
     buy_reserve_a : RiskReserveInputs, buy_reserve_b : RiskReserveInputs,
     sell_reserve_a : RiskReserveInputs, sell_reserve_b : RiskReserveInputs,
     profit_percentage : RiskProfitInputs, pool_age : AgeInputs]

InitRisk == InitPureCall(RiskCalls)

CallCalculateRiskScore ==
    /\ pure_call.fn = "calculate_risk_score"
    /\ Returns(CalculateRiskScore(pure_call))

NextRisk == CallCalculateRiskScore

SpecRisk == InitRisk /\ [][NextRisk]_vars

\* Result<T>: Ok(value) or Err(message).
Ok(v) == [ok |-> v]
Err(msg) == [err |-> msg]
IsErr(r) == DOMAIN r = {"err"}

\* The variant without the check of the supported DEXes.
ValidateAnyDexes(s) ==
    IF s.name = "" THEN Err("Strategy name cannot be empty")
    ELSE IF s.parameters.min_profit_threshold <= 0
         THEN Err("Min profit threshold must be positive")
    ELSE IF s.parameters.max_slippage <= 0 THEN Err("Max slippage must be positive")
    ELSE IF s.parameters.min_liquidity <= 0 THEN Err("Min liquidity must be positive")
    ELSE IF s.parameters.max_trade_amount <= 0 THEN Err("Max trade amount must be positive")
    ELSE IF s.parameters.position_size_multiplier <= 0
         THEN Err("Position size multiplier must be positive")
    ELSE Ok(<<>>)

\* BaseArbitrageStrategy::validate: the checks in the order of the code.
Validate(s) ==
    IF s.name = "" THEN Err("Strategy name cannot be empty")
    ELSE IF s.parameters.min_profit_threshold <= 0
         THEN Err("Min profit threshold must be positive")
    ELSE IF s.parameters.max_slippage <= 0 THEN Err("Max slippage must be positive")
    ELSE IF s.parameters.min_liquidity <= 0 THEN Err("Min liquidity must be positive")
    ELSE IF s.parameters.max_trade_amount <= 0 THEN Err("Max trade amount must be positive")
    ELSE IF s.parameters.position_size_multiplier <= 0
         THEN Err("Position size multiplier must be positive")
    ELSE IF s.parameters.supported_dexes = <<>>
         THEN Err("At least one DEX must be supported")
    ELSE Ok(<<>>)

\* StrategyFactory::create_base_strategy: `strategy.validate()?` returns
\* the error, else the strategy is returned.
CreateBaseStrategy(name, parameters) ==
    LET strategy_ == [name |-> name, parameters |-> parameters, is_active |-> TRUE]
    IN  IF IsErr(Validate(strategy_)) THEN Validate(strategy_) ELSE Ok(strategy_)

\* SpecValidate: validate and create_base_strategy called with an empty or
\* a non-empty name, thresholds below, at and above zero, and an empty or a
\* non-empty list of DEXes.
SignInputs == {-1, 0, 1}
ParameterInputs ==
    [min_profit_threshold : SignInputs, max_slippage : SignInputs, min_liquidity : SignInputs,
     max_trade_amount : SignInputs, position_size_multiplier : SignInputs,
     supported_dexes : {<<>>, <<"Raydium">>}]
ValidateCalls ==
    [fn : {"validate", "create_base_strategy"}, name : {"", "Base"},
     parameters : ParameterInputs]

InitValidate == InitPureCall(ValidateCalls)

CallValidate ==
    /\ pure_call.fn = "validate"
    /\ Returns(Validate([name |-> pure_call.name, parameters |-> pure_call.parameters,
                         is_active |-> TRUE]))

CallCreateBaseStrategy ==
    /\ pure_call.fn = "create_base_strategy"
    /\ Returns(CreateBaseStrategy(pure_call.name, pure_call.parameters))

NextValidate ==
    \/ CallValidate
    \/ CallCreateBaseStrategy

SpecValidate == InitValidate /\ [][NextValidate]_vars

\* ------------------------------------------------------------- scan cycle

\* The most pools the adapters of one drawn scan cycle return together.
MaxScanPools == 2

\* A Token: PartialEq, Eq and Hash are derived, so two Tokens are equal when
\* every field is; symbol stands for the fields other than mint.
TokenOf(mint, symbol) == [mint |-> mint, symbol |-> symbol]

\* A Pool as an adapter returns it.
DexPool(id, dex_type, token_a, token_b, reserve_a, reserve_b) ==
    [id |-> id, dex_type |-> dex_type, token_a |-> token_a, token_b |-> token_b,
     reserve_a |-> reserve_a, reserve_b |-> reserve_b]

\* The loop of scan_opportunities over dex_instances: the pools of an
\* adapter whose get_pools returned Ok are kept, an Err is logged and
\* skipped.  The result is all_pools.values() in iteration order.
RECURSIVE AllPools(_)
AllPools(results) ==
    IF results = <<>> THEN <<>>
    ELSE (IF IsErr(Head(results)) THEN <<>> ELSE Head(results).ok) \o AllPools(Tail(results))

\* get_token_pairs: the HashSet of (Token, Token), each pair ordered by mint.
OrderedPair(pool) ==
    IF pool.token_a.mint < pool.token_b.mint THEN <<pool.token_a, pool.token_b>>
    ELSE <<pool.token_b, pool.token_a>>
GetTokenPairs(all_pools) == {OrderedPair(all_pools[i]) : i \in 1..Len(all_pools)}

\* get_pools_for_token_pair: the pools whose mints are the pair's mints in
\* either order; each is given with its side relative to token_a, which is
\* what get_price(token_a) compares (mints).
TradesPair(pool, token_a, token_b) ==
    \/ pool.token_a.mint = token_a.mint /\ pool.token_b.mint = token_b.mint
    \/ pool.token_a.mint = token_b.mint /\ pool.token_b.mint = token_a.mint
GetPoolsForTokenPair(all_pools, token_a, token_b) ==
    LET Matches(pool) == TradesPair(pool, token_a, token_b)
        matched == SelectSeq(all_pools, Matches)
    IN  [i \in 1..Len(matched) |->
            PoolOf(matched[i].id, matched[i].reserve_a, matched[i].reserve_b,
                   matched[i].token_a.mint # token_a.mint)]

\* The opportunities of one token pair carry the pair as base and quote
\* token.
WithTokens(opportunities, token_a, token_b) ==
    [i \in 1..Len(opportunities) |->
        [base_token |-> token_a, quote_token |-> token_b] @@ opportunities[i]]

\* find_arbitrage_opportunities over all_pools, the token pairs taken in the
\* order the HashSet yields them.
RECURSIVE FindInAllPools(_, _, _, _)
FindInAllPools(all_pools, token_pairs, threshold, t) ==
    IF token_pairs = <<>> THEN <<>>
    ELSE LET token_a == Head(token_pairs)[1]
             token_b == Head(token_pairs)[2]
             pools_for_pair == GetPoolsForTokenPair(all_pools, token_a, token_b)
         IN  WithTokens(FindArbitrageOpportunities(pools_for_pair, threshold, t),
                        token_a, token_b)
                 \o FindInAllPools(all_pools, Tail(token_pairs), threshold, t)

\* calculate_price_differences panics for the pools of some token pair.
ScanPanics(all_pools) ==
    \E pair \in GetTokenPairs(all_pools) :
        LET pools_for_pair == GetPoolsForTokenPair(all_pools, pair[1], pair[2])
        IN  Len(pools_for_pair) >= 2 /\ DividesByZero(pools_for_pair)

\* The orders in which a HashSet can yield its elements.
IterationOrders(set) ==
    {order \in [1..Cardinality(set) -> set] : \A x \in set : \E i \in DOMAIN order : order[i] = x}

\* scan_opportunities on what the adapters' get_pools returned: it panics,
\* or it sends the opportunities found and returns Ok(()).
CallScanOpportunities ==
    /\ pure_call.fn = "scan_opportunities"
    /\ LET all_pools == AllPools(pure_call.get_pools) IN
       IF ScanPanics(all_pools)
       THEN Returns([panic |-> "Division by zero"])
       ELSE \E token_pairs \in IterationOrders(GetTokenPairs(all_pools)) :
                Returns([sent |-> FindInAllPools(all_pools, token_pairs,
                                                 BasisPoints(pure_call.threshold), now),
                         result |-> "Ok"])

\* SpecScanCycle: one scan cycle over two adapters, each failing or
\* returning pools; the pools trade mints 1-2 or 1-3, in either token order
\* and with either symbol for mint 1.
AdapterOrder == <<"Raydium", "Meteora">>
ScanTokenPairs ==
    {<<TokenOf(1, "x"), TokenOf(2, "x")>>, <<TokenOf(1, "y"), TokenOf(2, "x")>>,
     <<TokenOf(2, "x"), TokenOf(1, "x")>>, <<TokenOf(1, "x"), TokenOf(3, "x")>>}

\* What get_pools of adapter a returns in a drawn cycle.
GetPoolsResult(a, drawn, failed) ==
    LET OfAdapter(pool) == pool.dex_type = AdapterOrder[a]
    IN  IF a \in failed THEN Err("get_pools failed") ELSE Ok(SelectSeq(drawn, OfAdapter))

InitScanCycle ==
    \E n \in 0..MaxScanPools :
        \E f \in [1..n -> ScanTokenPairs \X (0..MaxReserve) \X (0..MaxReserve)
                              \X DOMAIN AdapterOrder] :
            \E failed \in SUBSET DOMAIN AdapterOrder :
                \E threshold \in ThresholdInputs :
                    LET drawn == [i \in 1..n |->
                                     DexPool(i, AdapterOrder[f[i][4]], f[i][1][1], f[i][1][2],
                                             f[i][2], f[i][3])]
                    IN  InitPureCall({[fn |-> "scan_opportunities",
                                       get_pools |-> [a \in DOMAIN AdapterOrder |->
                                                         GetPoolsResult(a, drawn, failed)],
                                       threshold |-> threshold]})

NextScanCycle == CallScanOpportunities

SpecScanCycle == InitScanCycle /\ [][NextScanCycle]_vars

\* ------------------------------------------------------------ strategies

\* The strategies drawn for add_strategy and update_strategy: a threshold
\* below, at and above zero, and an empty or a non-empty list of DEXes.
StrategyIds == {"a", "b"}
RegisteredInputs ==
    [id : StrategyIds,
     min_profit_threshold : {-MinProfitThreshold, 0, MinProfitThreshold},
     risk_tolerance : {"Medium"}, supported_dexes : {{}, {"Raydium"}},
     min_liquidity : {MinLiquidity}]

\* ArbitrageEngine::add_strategy: the strategy is inserted under its id in
\* the Engine's map and saved to the Store (no database is configured).
\* MemoryStore::save_strategy inserts it under its id.
SaveStrategy(store, s) == Put(store, s.id, s)
AddStrategy ==
    \E s \in RegisteredInputs :
        /\ strategies' = Put(strategies, s.id, s)
        /\ store_strategies' = SaveStrategy(store_strategies, s)
        /\ pure_call' = [fn |-> "add_strategy", strategy |-> s]
        /\ UNCHANGED <<now, max_opportunities, max_executions, store_opportunities,
                       store_executions, store_metrics, next_cleanup, oldest_key, store_locks,
                       store_calls, active_opportunities, executions, execution_channel,
                       engine_pc, engine_opportunity, sleep_left, last_discard, forwarded,
                       executorVars, next_uuid, pools, scan_threshold, scan_pc, found, new_pc,
                       created, strategy, candidate, suitable, pure_result>>

\* ArbitrageEngine::update_strategy; MemoryStore::update_strategy is
\* save_strategy.
UpdateStrategy ==
    \E s \in RegisteredInputs :
        /\ strategies' = Put(strategies, s.id, s)
        /\ store_strategies' = SaveStrategy(store_strategies, s)
        /\ pure_call' = [fn |-> "update_strategy", strategy |-> s]
        /\ UNCHANGED <<now, max_opportunities, max_executions, store_opportunities,
                       store_executions, store_metrics, next_cleanup, oldest_key, store_locks,
                       store_calls, active_opportunities, executions, execution_channel,
                       engine_pc, engine_opportunity, sleep_left, last_discard, forwarded,
                       executorVars, next_uuid, pools, scan_threshold, scan_pc, found, new_pc,
                       created, strategy, candidate, suitable, pure_result>>

\* ArbitrageEngine::remove_strategy: a strategy the Engine holds is removed
\* from its map and deleted from the Store.
RemoveStrategy ==
    \E id \in StrategyIds \cup {DefaultStrategy.id} :
        /\ IF id \in DOMAIN strategies
           THEN /\ strategies' = Remove(strategies, id)
                /\ store_strategies' = Remove(store_strategies, id)
           ELSE UNCHANGED <<strategies, store_strategies>>
        /\ pure_call' = [fn |-> "remove_strategy", strategy_id |-> id]
        /\ UNCHANGED <<now, max_opportunities, max_executions, store_opportunities,
                       store_executions, store_metrics, next_cleanup, oldest_key, store_locks,
                       store_calls, active_opportunities, executions, execution_channel,
                       engine_pc, engine_opportunity, sleep_left, last_discard, forwarded,
                       executorVars, next_uuid, pools, scan_threshold, scan_pc, found, new_pc,
                       created, strategy, candidate, suitable, pure_result>>

NextStrategies ==
    \/ AddStrategy
    \/ UpdateStrategy
    \/ RemoveStrategy

\* SpecStrategies: strategies added, updated and removed on the Engine
\* after construction.
SpecStrategies == Init /\ [][NextStrategies]_vars

\* -------------------------------------------------------------- pipeline

\* A Decimal fraction in whole basis points.
ProfitBasisPoints(p) == (p[1] * 10000) \div p[2]

\* An opportunity the Scanner built with ArbitrageOpportunity::new, as the
\* Engine's checks read it: new gives it a fresh id and computes its risk
\* score, for which every id and every score is taken.
ScannedOpportunity(o, id, risk_score) ==
    Opportunity(id, o.timestamp,
                [net_profit |-> o.net_profit,
                 profit_percentage |-> ProfitBasisPoints(o.profit_percentage),
                 risk_score |-> risk_score, buy_dex |-> "Raydium", sell_dex |-> "Meteora"])

\* A scan cycle of the Scanner; its opportunities are sent on the
\* opportunity channel, which found stands for.  The next cycle is taken
\* once the Engine has received them.
PipelineScan ==
    /\ found = <<>>
    /\ ScanOpportunities

\* main_loop, first branch, on an opportunity the Scanner sent.
EngineRecvScanned ==
    /\ engine_pc = "select"
    /\ found # <<>>
    /\ \E id \in Ids, risk_score \in RiskScore :
          LET o == ScannedOpportunity(Head(found), id, risk_score) IN
          /\ CanCreate \/ ~IsProfitable(o, scan_threshold)
          /\ ProcessOpportunity(o)
    /\ found' = Tail(found)
    /\ UNCHANGED <<now, strategies, executorVars, next_uuid, pools, scan_threshold, scan_pc,
                   new_pc, created, strategy, candidate, suitable, pure_call, pure_result>>

\* SpecPipeline: the Scanner's cycles over drawn pools of one token pair
\* feed the Engine, next to opportunities with any field values; the
\* configured threshold is zero or positive.
InitPipeline ==
    /\ max_opportunities = MaxCapacity
    /\ max_executions = MaxCapacity
    /\ max_concurrent_executions = MaxCapacity
    /\ InitStoreEngine
    /\ next_uuid = 0
    /\ active_executions = EmptyMap
    /\ \E n \in 0..MaxScanPools :
          \E f \in [1..n -> (0..MaxReserve) \X (0..MaxReserve) \X BOOLEAN] :
              pools = [i \in 1..n |-> PoolOf(i, f[i][1], f[i][2], f[i][3])]
    /\ scan_threshold \in {0, MinProfitThreshold}
    /\ scan_pc = "idle"
    /\ found = <<>>
    /\ new_pc = "idle"
    /\ created = NoOpportunity
    /\ strategy = DefaultStrategy
    /\ candidate = NoOpportunity
    /\ suitable = <<>>
    /\ pure_call = NoPureCall
    /\ pure_result = <<>>

NextPipeline ==
    \/ PipelineScan
    \/ EngineRecvScanned
    \/ EngineRecvOpportunity
    \/ EngineInsertOpportunity

SpecPipeline == InitPipeline /\ [][NextPipeline]_vars

\* ------------------------------------------------------------ Store locks

\* The tasks calling the Store at the same time, next to its own cleanup
\* task.
NumCallers == 2
Callers == 1..NumCallers
CleanupTask == NumCallers + 1
StoreTasks == Callers \cup {CleanupTask}

\* The variant in which get_storage_usage takes its locks in reverse.
LockPlanReversed(op) ==
    CASE op = "save_opportunity" -> <<<<"opportunities", "write">>, <<"metrics", "write">>>>
      [] op = "batch_save_opportunities" ->
             <<<<"opportunities", "write">>, <<"metrics", "write">>>>
      [] op = "update_opportunity_status" -> <<<<"opportunities", "write">>>>
      [] op = "save_execution" -> <<<<"executions", "write">>, <<"metrics", "write">>>>
      [] op = "get_storage_usage" ->
             <<<<"executions", "read">>, <<"strategies", "read">>, <<"opportunities", "read">>>>
      [] op = "get_metrics" -> <<<<"metrics", "write">>>>
      [] op = "cleanup_expired_data" ->
             <<<<"opportunities", "write">>, <<"executions", "write">>, <<"metrics", "write">>>>

\* The locks each operation of the MemoryStore takes, in the order of its
\* code; every guard is held until the operation returns.  The Mutex of
\* metrics is taken as a write lock.
LockPlan(op) ==
    CASE op = "save_opportunity" -> <<<<"opportunities", "write">>, <<"metrics", "write">>>>
      [] op = "batch_save_opportunities" ->
             <<<<"opportunities", "write">>, <<"metrics", "write">>>>
      [] op = "update_opportunity_status" -> <<<<"opportunities", "write">>>>
      [] op = "save_execution" -> <<<<"executions", "write">>, <<"metrics", "write">>>>
      [] op = "get_storage_usage" ->
             <<<<"opportunities", "read">>, <<"strategies", "read">>, <<"executions", "read">>>>
      [] op = "get_metrics" -> <<<<"metrics", "write">>>>
      [] op = "cleanup_expired_data" ->
             <<<<"opportunities", "write">>, <<"executions", "write">>, <<"metrics", "write">>>>

CallerOps == {"save_opportunity", "batch_save_opportunities", "update_opportunity_status",
              "save_execution", "get_storage_usage", "get_metrics"}

\* The lock and mode a call under way takes next; it has none when it
\* holds every lock of its plan.
HoldsAll(call) == call.acquired = Len(LockPlan(call.op))
NextLock(call) == LockPlan(call.op)[call.acquired + 1]

\* tokio's RwLock and Mutex grant in the order of arrival: a request is
\* granted when it is first in the queue and no holder excludes it.
Compatible(mode, held) == IF mode = "read" THEN \A h \in held : h[2] = "read" ELSE held = {}

LocksFrame ==
    UNCHANGED <<now, max_opportunities, max_executions, store_opportunities, store_executions,
                store_metrics, next_cleanup, oldest_key, store_strategies, engineVars,
                executorVars, next_uuid, pureVars>>

\* A task calls an operation of the Store; the cleanup task calls
\* cleanup_expired_data.
StoreCallBegin ==
    /\ \E task \in StoreTasks \ DOMAIN store_calls :
          \E op \in IF task = CleanupTask THEN {"cleanup_expired_data"} ELSE CallerOps :
              store_calls' = Put(store_calls, task, [op |-> op, acquired |-> 0, waits |-> FALSE])
    /\ UNCHANGED store_locks
    /\ LocksFrame

\* The call reaches its next `.read().await`, `.write().await` or
\* `.lock().await` and joins the lock's queue.
StoreCallWaitOf(task) ==
    /\ task \in DOMAIN store_calls
    /\ LET call == store_calls[task] IN
       /\ ~HoldsAll(call)
       /\ ~call.waits
       /\ store_calls' = [store_calls EXCEPT ![task].waits = TRUE]
       /\ store_locks' = [store_locks EXCEPT ![NextLock(call)[1]].waiting = Append(@, task)]
    /\ LocksFrame
StoreCallWait == \E task \in StoreTasks : StoreCallWaitOf(task)

\* The lock is granted to the first call of its queue.
StoreCallAcquireOn(l) ==
    /\ store_locks[l].waiting # <<>>
    /\ LET task == Head(store_locks[l].waiting)
           call == store_calls[task]
       IN  /\ Compatible(NextLock(call)[2], store_locks[l].held)
           /\ store_locks' = [store_locks EXCEPT
                                 ![l].waiting = Tail(@),
                                 ![l].held = @ \cup {<<task, NextLock(call)[2]>>}]
           /\ store_calls' = [store_calls EXCEPT ![task].acquired = @ + 1,
                                                 ![task].waits = FALSE]
    /\ LocksFrame
StoreCallAcquire == \E l \in StoreLocks : StoreCallAcquireOn(l)

\* The operation returns and its guards are dropped.
StoreCallReturnOf(task) ==
    /\ task \in DOMAIN store_calls
    /\ HoldsAll(store_calls[task])
    /\ store_locks' = [l \in StoreLocks |->
                          [store_locks[l] EXCEPT !.held = {h \in @ : h[1] # task}]]
    /\ store_calls' = Remove(store_calls, task)
    /\ LocksFrame
StoreCallReturn == \E task \in StoreTasks : StoreCallReturnOf(task)

NextLocks ==
    \/ StoreCallBegin
    \/ StoreCallWait
    \/ StoreCallAcquire
    \/ StoreCallReturn

\* SpecLocks: operations of the Store called concurrently; the runtime
\* polls every task that is ready, and every lock that can be granted is.
SpecLocks ==
    /\ Init
    /\ [][NextLocks]_vars
    /\ \A task \in StoreTasks : WF_vars(StoreCallWaitOf(task))
    /\ \A l \in StoreLocks : WF_vars(StoreCallAcquireOn(l))
    /\ \A task \in StoreTasks : WF_vars(StoreCallReturnOf(task))

\* -------------------------------------------------------------- counters

\* The Executor's clone of execution_sender: a result with a cost and a
\* profit is sent; its execution was created now or longer ago than the
\* Store retains executions.
PublishAgedResult ==
    /\ next_uuid < MaxExecs
    /\ Len(execution_channel) < ChannelCapacity
    /\ \E oid \in Ids, status \in {"Confirmed", "Failed"}, cost \in CostInputs,
          profit \in ProfitInputs, t \in {now, now - RetentionTime - 1} :
          execution_channel' =
              Append(execution_channel,
                     PublishedResult(oid, status, next_uuid + 1, t, cost, profit))
    /\ next_uuid' = next_uuid + 1
    /\ UNCHANGED <<now, storeVars, strategies, active_opportunities, executions, engine_pc,
                   engine_opportunity, sleep_left, last_discard, forwarded, executorVars, pureVars>>

NextCounters ==
    \/ PublishAgedResult
    \/ EngineRecvExecution
    \/ EngineBackgroundCleanup
    \/ EngineTick

\* SpecCounters: execution results processed by the Engine while the clock
\* runs and the Store's cleanup task ticks, for every configured
\* max_executions from 1 on.
SpecCounters == InitHistory /\ [][NextCounters]_vars

\* ----------------------------------------------------------------- claims

\* C1: after any sequence of save_opportunity calls the Store holds at most
\* max_opportunities opportunities.
C1_CapacityRespected == Size(store_opportunities) <= max_opportunities

\* C2: a save at capacity evicts an entry with the smallest timestamp among
\* those present before the call and nothing else; a save below capacity
\* evicts nothing.
C2_SaveStep == store_metrics'.total_opportunities = store_metrics.total_opportunities + 1
C2_EvictsOldest ==
    [][C2_SaveStep =>
        LET before == store_opportunities
            after == store_opportunities'
            gone == (DOMAIN before) \ (DOMAIN after)
        IN  /\ Cardinality(gone) <= 1
            /\ gone \subseteq {oldest_key'}
            /\ \A k \in (DOMAIN before) \ {oldest_key'} : k \in DOMAIN after
            /\ Size(before) < max_opportunities => oldest_key' = NoKey
            /\ (Size(before) >= max_opportunities /\ before # EmptyMap) =>
                  /\ oldest_key' \in DOMAIN before
                  /\ \A j \in DOMAIN before :
                        before[oldest_key'].timestamp <= before[j].timestamp
                  /\ (DOMAIN after) \ (DOMAIN before) # {} => gone = {oldest_key'}
    ]_vars

\* Scenario C: capacity 2, the entry saved at time 0 was evicted and the
\* entries for the later timestamps 1 and 2 are present.
C2_Witness ==
    /\ max_opportunities = 2
    /\ store_metrics.total_opportunities = 3
    /\ oldest_key # NoKey
    /\ oldest_key \notin DOMAIN store_opportunities
    /\ {store_opportunities[k].timestamp : k \in DOMAIN store_opportunities} = {1, 2}

\* C3: the Executor's active set never holds more than
\* max_concurrent_executions entries.
C3_ConcurrencyCeiling == Size(active_executions) <= max_concurrent_executions

\* The ceiling is reached: the active set is full.
C3_Witness ==
    /\ max_concurrent_executions = 2
    /\ Size(active_executions) = 2
    /\ next_uuid = 2

\* C4: while an id is in the Engine's active map, exactly one execution has
\* been forwarded for it, however often the id is submitted (unless the one
\* send is still waiting for room in the channel).
C4_ForwardedOnce ==
    \A id \in Ids :
        IF id \in DOMAIN active_opportunities
        THEN IF engine_pc = "send_blocked" /\ engine_opportunity.id = id
             THEN forwarded[id] = 0
             ELSE forwarded[id] = 1
        ELSE forwarded[id] = 0

\* The only active id was submitted again and discarded as already active;
\* one execution has been forwarded for it.
C4_Witness ==
    /\ engine_pc = "select"
    /\ last_discard = "duplicate"
    /\ \E id \in Ids : DOMAIN active_opportunities = {id} /\ forwarded[id] = 1

\* C5: the Executor's active set holds at most one execution per
\* opportunity id.
C5_OneExecutionPerOpportunity ==
    \A a, b \in DOMAIN active_executions :
        active_executions[a].opportunity_id = active_executions[b].opportunity_id => a = b

\* C6: an execution the Engine forwarded is never handled by the Engine's
\* own execution-result handler: none reaches the Engine's history or the
\* executions the handler saves to the Store.
C6_ForwardedReachesExecutor ==
    /\ \A i \in 1..Len(executions) : executions[i].by # "engine"
    /\ \A i \in 1..Len(store_executions) : store_executions[i].by # "engine"

\* C7: an opportunity is not expired at the moment the Engine inserts it
\* into the active map.
C7_NotExpiredAtInsertion ==
    [][\A id \in DOMAIN active_opportunities' :
          id \notin DOMAIN active_opportunities =>
              ~IsExpired(active_opportunities'[id], now')]_vars

\* C8: when the Engine loop keeps running, every opportunity in the active
\* map is eventually removed from it.
C8_EventuallyRemoved ==
    ([]<>(engine_pc = "select")) =>
        \A id \in Ids :
            (id \in DOMAIN active_opportunities) ~> (id \notin DOMAIN active_opportunities)

\* C9: the Store's status of an id agrees with the status in the Engine's
\* active map.
C9_StoreAgreesWithActive ==
    \A id \in (DOMAIN active_opportunities) \cap (DOMAIN store_opportunities) :
        store_opportunities[id].status = active_opportunities[id].status

\* C10: handling an execution result sets the matching active opportunity to
\* the mapped status (Confirmed -> Completed, Failed -> Failed, Cancelled ->
\* Expired, other -> Pending), changes no other opportunity, and saves the
\* execution to the Store and appends it to the history exactly once.
C10_ResultStep == execution_channel # <<>> /\ execution_channel' = Tail(execution_channel)
C10_SpecMapping(status) ==
    IF status = "Confirmed" THEN "Completed"
    ELSE IF status = "Failed" THEN "Failed"
    ELSE IF status = "Cancelled" THEN "Expired"
    ELSE "Pending"
C10_ResultHandling ==
    [][C10_ResultStep =>
        LET e == Head(execution_channel) IN
        /\ DOMAIN active_opportunities' = DOMAIN active_opportunities
        /\ \A id \in DOMAIN active_opportunities :
              active_opportunities'[id] =
                  IF id = e.opportunity_id
                  THEN [active_opportunities[id] EXCEPT
                           !.status = C10_SpecMapping(e.execution_status)]
                  ELSE active_opportunities[id]
        /\ store_opportunities' = store_opportunities
        /\ executions' = Append(executions, e)
        /\ store_executions' # <<>>
        /\ store_executions'[Len(store_executions')] = e
        /\ Len(store_executions') <= Len(store_executions) + 1
        /\ store_metrics'.total_executions = store_metrics.total_executions + 1
    ]_vars

\* A Cancelled result for an active opportunity has been handled.
C10_Witness ==
    /\ executions # <<>>
    /\ LET e == executions[Len(executions)] IN
       /\ e.execution_status = "Cancelled"
       /\ e.opportunity_id \in DOMAIN active_opportunities
       /\ active_opportunities[e.opportunity_id].status = "Expired"
       /\ store_executions[Len(store_executions)] = e

\* C11: every status change of an execution in the Executor's active set is
\* one of: Pending to Submitted, Submitted to Confirmed or Failed, Failed to
\* Pending, a non-terminal status to Cancelled.
C11_Allowed(old, new) ==
    \/ old = "Pending" /\ new = "Submitted"
    \/ old = "Submitted" /\ new \in {"Confirmed", "Failed"}
    \/ old = "Failed" /\ new = "Pending"
    \/ old \in {"Pending", "Submitted", "Executing"} /\ new = "Cancelled"
C12_RetryStep ==
    /\ executor_call'.op = "retry"
    /\ executor_call' # executor_call \/ active_executions' # active_executions
C12_RetryFrame ==
    [][C12_RetryStep =>
        LET id == executor_call'.id
            before == active_executions
        IN  /\ IF id \in DOMAIN before /\ before[id].execution_status = "Failed"
               THEN /\ DOMAIN active_executions' = DOMAIN before
                    /\ active_executions'[id] =
                          [before[id] EXCEPT !.execution_status = "Pending",
                                             !.error_message = "None"]
                    /\ \A x \in (DOMAIN before) \ {id} : active_executions'[x] = before[x]
               ELSE active_executions' = before
            /\ UNCHANGED <<execution_channel, executor_send, max_concurrent_executions,
                           next_uuid>>
    ]_vars

\* A Failed execution with an error message was retried: it is Pending and
\* its error message is cleared.
C12_Witness ==
    /\ executor_call.op = "retry"
    /\ executor_call.before = "Failed"
    /\ active_executions[executor_call.id].execution_status = "Pending"
    /\ active_executions[executor_call.id].error_message = "None"
    /\ \E x \in DOMAIN active_executions :
          x # executor_call.id /\ active_executions[x].error_message = "Some"

\* C13: the Store's execution deque never holds more than max_executions
\* records, and the records it holds are in save order.
C13_DequeBounded ==
    /\ Len(store_executions) <= max_executions
    /\ \A i, j \in 1..Len(store_executions) :
          i < j => store_executions[i].id < store_executions[j].id

\* C14: the Engine's execution history holds at most as many records as
\* the configured ceiling for execution records, max_executions.
C14_HistoryBounded == Len(executions) <= max_executions

\* C16: is_opportunity_suitable returns true exactly when the profit meets
\* the strategy's threshold, the risk is within its tolerance, both DEXes are
\* supported and all four pool reserves reach its minimum liquidity.
C16_IsSuitable(s, o) ==
    /\ o.profit_percentage >= s.min_profit_threshold
    /\ RiskRank(o.risk_score) <= RiskRank(s.risk_tolerance)
    /\ o.buy_dex \in s.supported_dexes
    /\ o.sell_dex \in s.supported_dexes
    /\ o.buy_reserve_a >= s.min_liquidity
    /\ o.buy_reserve_b >= s.min_liquidity
    /\ o.sell_reserve_a >= s.min_liquidity
    /\ o.sell_reserve_b >= s.min_liquidity
C16_SuitableIffAllChecks ==
    suitable # <<>> => (suitable[1] <=> C16_IsSuitable(strategy, candidate))

\* C17: a strategy that supports only Raydium never finds an opportunity
\* suitable whose sell pool is on Meteora.
C17_RaydiumOnlyRejectsMeteora ==
    (suitable # <<>> /\ strategy.supported_dexes = {"Raydium"} /\ candidate.sell_dex = "Meteora")
        => suitable[1] = FALSE

\* Scenario B with everything else in favour: high profit, low risk, the buy
\* pool on Raydium, all reserves above the minimum; the result is false.
C17_Witness ==
    /\ suitable = <<FALSE>>
    /\ strategy.supported_dexes = {"Raydium"}
    /\ strategy.risk_tolerance = "Critical"
    /\ candidate.sell_dex = "Meteora"
    /\ candidate.buy_dex = "Raydium"
    /\ candidate.profit_percentage = 100 * MinProfitThreshold
    /\ candidate.risk_score = "Low"
    /\ C16_IsSuitable([strategy EXCEPT !.supported_dexes = DexType], candidate)

\* C15: a scan cycle over pools with zero reserves does not end the Scanner
\* task and finds no opportunity for a pair in which a pool has a zero
\* reserve.
C15_HasZeroReserve(pool) == pool.reserve_a = 0 \/ pool.reserve_b = 0
C15_ZeroReserveExcluded ==
    /\ scan_pc # "panicked"
    /\ \A k \in 1..Len(found) :
          ~C15_HasZeroReserve(found[k].buy_pool) /\ ~C15_HasZeroReserve(found[k].sell_pool)

\* C18: after a scan cycle, for every pair of pools i < j with positive
\* prices, an opportunity buying from the lower-priced pool and selling to
\* the higher-priced one, with profit |price_i - price_j| / min(price_i,
\* price_j), has been found if and only if that profit meets the threshold;
\* every opportunity found has buy_price <= sell_price and a profit that
\* meets the threshold.
C18_Priced(pool) == GetPrice(pool) # NoPrice /\ GetPrice(pool) # Zero
C18_Profit(p, q) == IF FracLess(p, q) THEN FracDiv(FracSub(q, p), p) ELSE FracDiv(FracSub(p, q), q)
C18_EmitsIffProfitable ==
    scan_pc \in {"sleep", "panicked"} =>
        /\ \A i, j \in 1..Len(pools) :
              (i < j /\ C18_Priced(pools[i]) /\ C18_Priced(pools[j])) =>
                  LET p == GetPrice(pools[i])
                      q == GetPrice(pools[j])
                      lo == IF FracLess(p, q) THEN pools[i] ELSE pools[j]
                      hi == IF FracLess(p, q) THEN pools[j] ELSE pools[i]
                  IN  ~FracLess(C18_Profit(p, q), BasisPoints(scan_threshold)) <=>
                          \E k \in 1..Len(found) :
                              /\ found[k].buy_pool = lo
                              /\ found[k].sell_pool = hi
                              /\ found[k].profit_percentage = C18_Profit(p, q)
        /\ \A k \in 1..Len(found) :
              /\ ~FracLess(found[k].sell_price, found[k].buy_price)
              /\ ~FracLess(found[k].profit_percentage, BasisPoints(scan_threshold))

\* C19: for the pools with reserves (1,000,000 ; 1,000,000) and
\* (1,010,000 ; 1,000,000) and a 0.5 % threshold the scan finds exactly one
\* opportunity, buying from the first pool and selling to the second, with
\* profit_percentage exactly 0.01 (1.00 %).
C19_ScenarioScanned == pools = ScenarioPools /\ scan_threshold = MinProfitThreshold /\ scan_pc = "sleep"
C20_ExpiryThirtySeconds ==
    new_pc = "created" =>
        /\ created.expiry = created.timestamp + Lifetime
        /\ IsExpired(created, now) <=> now > created.expiry

\* C21: for a pool with non-negative reserves and any base token, get_price
\* does not panic, returns None when the base token is not in the pool or
\* the denominator-side reserve is zero, and never returns a negative price.
C21_NonNegativeReserves ==
    ~FracLess(pure_call.reserve_a, Zero) /\ ~FracLess(pure_call.reserve_b, Zero)
C21_Denominator ==
    IF pure_call.base_token = pure_call.token_a THEN pure_call.reserve_b
    ELSE pure_call.reserve_a
C21_GetPriceTotal ==
    (pure_call.fn = "get_price" /\ pure_result # <<>> /\ C21_NonNegativeReserves) =>
        /\ pure_result[1] \notin Panics
        /\ pure_call.base_token \notin {pure_call.token_a, pure_call.token_b}
              => pure_result[1] = NoPrice
        /\ (pure_call.base_token \in {pure_call.token_a, pure_call.token_b}
              /\ C21_Denominator = Zero) => pure_result[1] = NoPrice
        /\ pure_result[1] \notin Panics /\ pure_result[1] # NoPrice
              => ~FracLess(pure_result[1], Zero)

\* C22: with the profit, the other reserves and the age held fixed, lowering
\* any one reserve to a value below 1000 never lowers the risk score.
C22_Lowered(c) ==
    {[c EXCEPT !.buy_reserve_a = v] : v \in {x \in RiskReserveInputs : x < c.buy_reserve_a /\ x < 1000}}
    \cup {[c EXCEPT !.buy_reserve_b = v] : v \in {x \in RiskReserveInputs : x < c.buy_reserve_b /\ x < 1000}}
    \cup {[c EXCEPT !.sell_reserve_a = v] : v \in {x \in RiskReserveInputs : x < c.sell_reserve_a /\ x < 1000}}
    \cup {[c EXCEPT !.sell_reserve_b = v] : v \in {x \in RiskReserveInputs : x < c.sell_reserve_b /\ x < 1000}}
C22_RiskMonotone ==
    (pure_call.fn = "calculate_risk_score" /\ pure_result # <<>>) =>
        \A lower \in C22_Lowered(pure_call) :
            RiskRank(CalculateRiskScore(lower)) >= RiskRank(pure_result[1])

\* The score of a call with all reserves at 1000 or more has been computed,
\* and lowering one reserve raises the level from Low to Medium.
C22_Witness ==
    /\ pure_call.fn = "calculate_risk_score"
    /\ pure_result = <<"Low">>
    /\ pure_call.buy_reserve_a = LowReserve + 1
    /\ ~LowLiquidity(pure_call.buy_reserve_a, pure_call.buy_reserve_b)
    /\ ~LowLiquidity(pure_call.sell_reserve_a, pure_call.sell_reserve_b)
    /\ \E lower \in C22_Lowered(pure_call) : CalculateRiskScore(lower) = "Medium"

\* C23: the level returned is the one obtained from the sum of +2 for a buy
\* reserve below 1000, +2 for a sell reserve below 1000, +1 for a profit
\* below 0.5 %, +3 for a profit above 5 %, +1 for a buy pool last updated
\* more than 24 hours ago, mapped 0-2 Low, 3-4 Medium, 5-6 High, 7+ Critical.
C23_Score(c) ==
      (IF c.buy_reserve_a < 1000 \/ c.buy_reserve_b < 1000 THEN 2 ELSE 0)
    + (IF c.sell_reserve_a < 1000 \/ c.sell_reserve_b < 1000 THEN 2 ELSE 0)
    + (IF c.profit_percentage < 50 THEN 1 ELSE 0)
    + (IF c.profit_percentage > 500 THEN 3 ELSE 0)
    + (IF c.pool_age > 2 * 24 THEN 1 ELSE 0)
C23_Level(score) ==
    CASE score \in 0..2 -> "Low" [] score \in 3..4 -> "Medium" [] score \in 5..6 -> "High"
      [] OTHER -> "Critical"
C23_RiskScoreAsStated ==
    (pure_call.fn = "calculate_risk_score" /\ pure_result # <<>>) =>
        pure_result[1] = C23_Level(C23_Score(pure_call))

\* C24: handling one execution result with status Confirmed, actual_profit
\* 100 and total_cost 10 raises the net profit (total profit minus total
\* fees) of the Engine's metrics and of the Store's metrics by exactly 90
\* and the count of successful executions by exactly 1.
C24_ScenarioResult(e) ==
    /\ e.execution_status = "Confirmed"
    /\ e.actual_profit = Some(100)
    /\ e.total_cost = Some(10)
C24_NetProfitAdded ==
    [][(C10_ResultStep /\ C24_ScenarioResult(Head(execution_channel))) =>
        LET before == GetMetrics(active_opportunities, executions)
            after == GetMetrics(active_opportunities', executions')
        IN  /\ after.net_profit = before.net_profit + 90
            /\ after.successful_executions = before.successful_executions + 1
            /\ store_metrics'.total_profit - store_metrics'.total_fees =
                  store_metrics.total_profit - store_metrics.total_fees + 90
            /\ store_metrics'.successful_executions = store_metrics.successful_executions + 1
    ]_vars

\* The scenario's result was handled after an earlier result with a profit
\* and no cost: the net profit is 190.
C24_Witness ==
    /\ Len(executions) = 2
    /\ C24_ScenarioResult(executions[2])
    /\ executions[1].actual_profit = Some(100)
    /\ executions[1].total_cost = None
    /\ GetMetrics(active_opportunities, executions).net_profit = 190
    /\ store_metrics.total_profit - store_metrics.total_fees = 190

\* C25: get_opportunity(o.id) called directly after save_opportunity(o)
\* returns a record equal to o, whatever the Store held before and whatever
\* its capacity.
C25_GetAfterSave ==
    (pure_call.fn = "get_opportunity" /\ pure_call.saved # None
        /\ pure_call.opportunity_id = pure_call.saved[1].id) =>
        pure_result = <<Some(pure_call.saved[1])>>

\* The save went into a Store of capacity 0, or evicted an entry of a full
\* Store, and the get that followed returned the saved record.
C25_Witness ==
    /\ pure_call.fn = "get_opportunity"
    /\ pure_call.saved # None
    /\ pure_call.opportunity_id = pure_call.saved[1].id
    /\ pure_result = <<pure_call.saved>>
    /\ max_opportunities = 1
    /\ oldest_key \notin {NoKey, pure_call.opportunity_id}

\* C26: validate and create_base_strategy return an error (and no strategy)
\* when one of min_profit_threshold, max_slippage, min_liquidity,
\* max_trade_amount, position_size_multiplier is <= 0 or no DEX is
\* supported; they succeed when all five are positive, a DEX is supported
\* and the name is not empty.
C26_Rejected(p) ==
    \/ p.min_profit_threshold <= 0
    \/ p.max_slippage <= 0
    \/ p.min_liquidity <= 0
    \/ p.max_trade_amount <= 0
    \/ p.position_size_multiplier <= 0
    \/ Len(p.supported_dexes) = 0
C26_ValidationRejects ==
    (pure_call.fn \in {"validate", "create_base_strategy"} /\ pure_result # <<>>) =>
        /\ C26_Rejected(pure_call.parameters) => IsErr(pure_result[1])
        /\ (~C26_Rejected(pure_call.parameters) /\ pure_call.name # "") =>
              /\ ~IsErr(pure_result[1])
              /\ pure_call.fn = "create_base_strategy" =>
                    /\ pure_result[1].ok.name = pure_call.name
                    /\ pure_result[1].ok.parameters = pure_call.parameters

\* create_base_strategy was called with positive thresholds, a name and no
\* DEX, and returned an error.
C26_Witness ==
    /\ pure_call.fn = "create_base_strategy"
    /\ pure_call.name = "Base"
    /\ pure_call.parameters.supported_dexes = <<>>
    /\ \A f \in {"min_profit_threshold", "max_slippage", "min_liquidity", "max_trade_amount",
                 "position_size_multiplier"} : pure_call.parameters[f] > 0
    /\ pure_result = <<Err("At least one DEX must be supported")>>

\* C27: when the Engine discards an inbound opportunity (expired, not
\* suitable for any strategy, already active, or net_profit not above the
\* threshold), the active map, the Store, the execution history and the
\* execution channel are unchanged.
C27_DiscardStep ==
    /\ engine_pc = "select"
    /\ last_discard' \in {"expired", "unsuitable", "duplicate", "unprofitable"}
    /\ now' = now
    /\ next_cleanup' = next_cleanup
C27_DiscardFrame ==
    [][C27_DiscardStep =>
        UNCHANGED <<active_opportunities, store_opportunities, store_executions, store_metrics,
                    executions, execution_channel>>]_vars

\* An opportunity was discarded as unprofitable while the active map, the
\* Store and the history held records.
C27_Witness ==
    /\ last_discard = "unprofitable"
    /\ engine_pc = "select"
    /\ active_opportunities # EmptyMap
    /\ store_opportunities # EmptyMap
    /\ executions # <<>>

\* C28: after an Engine cleanup tick the active map holds none of the
\* opportunities whose expiry had passed, the Store record of each removed
\* opportunity, if there is one, has status Expired, and every opportunity
\* that was not expired is still in the active map, unchanged.
C28_CleanupStep ==
    /\ engine_pc = "select"
    /\ sleep_left = 0
    /\ sleep_left' = CleanupSleep
    /\ last_discard' = "none"
    /\ execution_channel' = execution_channel
    /\ now' = now
C28_CleanupEffect ==
    [][C28_CleanupStep =>
        LET passed == {id \in DOMAIN active_opportunities :
                          now > active_opportunities[id].expiry}
        IN  /\ DOMAIN active_opportunities' = (DOMAIN active_opportunities) \ passed
            /\ \A id \in passed :
                  id \in DOMAIN store_opportunities' =>
                      store_opportunities'[id].status = "Expired"
            /\ \A id \in (DOMAIN active_opportunities) \ passed :
                  active_opportunities'[id] = active_opportunities[id]
    ]_vars

\* The Store's own cleanup has not run; the Engine's cleanup tick removed
\* an expired opportunity, whose Store record is Expired, and kept one that
\* was not expired.
C28_Witness ==
    /\ next_cleanup = 0
    /\ engine_pc = "select"
    /\ sleep_left = CleanupSleep
    /\ \E id \in DOMAIN store_opportunities :
          /\ store_opportunities[id].status = "Expired"
          /\ id \notin DOMAIN active_opportunities
    /\ \E id \in DOMAIN active_opportunities : ~IsExpired(active_opportunities[id], now)

\* C29: a run of the Store's background cleanup leaves the set of
\* opportunity ids in the Store as it was; each opportunity whose expiry is
\* before the current time gets status Expired and is otherwise unchanged,
\* and every other opportunity is unchanged.
C29_StoreCleanupStep == next_cleanup' # next_cleanup
C29_ExpiredInPlace ==
    [][C29_StoreCleanupStep =>
        /\ DOMAIN store_opportunities' = DOMAIN store_opportunities
        /\ \A id \in DOMAIN store_opportunities :
              store_opportunities'[id] =
                  IF store_opportunities[id].expiry < now
                  THEN [store_opportunities[id] EXCEPT !.status = "Expired"]
                  ELSE store_opportunities[id]
    ]_vars

\* The cleanup has just run on a Store with an opportunity past its expiry
\* and one that is not: the first is Expired, the second still Pending.
C29_Witness ==
    /\ next_cleanup > 0
    /\ store_metrics.last_cleanup = now
    /\ \E a, b \in DOMAIN store_opportunities :
          /\ store_opportunities[a].expiry < now
          /\ store_opportunities[a].status = "Expired"
          /\ store_opportunities[b].expiry >= now
          /\ store_opportunities[b].status = "Pending"

\* C30: the status of an opportunity record, in the Engine's active map or
\* in the Store, changes only in a step of the Engine's event loop: not in
\* a step of the Store's cleanup task and not while time passes.
C30_StatusChanged(before, after) ==
    \E id \in (DOMAIN before) \cap (DOMAIN after) :
        before[id].timestamp = after[id].timestamp /\ before[id].status # after[id].status
C30_EngineStep == next_cleanup' = next_cleanup /\ now' = now
C30_EngineOwnsStatus ==
    [][(\/ C30_StatusChanged(active_opportunities, active_opportunities')
        \/ C30_StatusChanged(store_opportunities, store_opportunities')) => C30_EngineStep
    ]_vars

\* C31: execute_opportunity called while the active set holds
\* max_concurrent_executions entries (or more) drops the opportunity: the
\* active set is unchanged, nothing is kept for later and nothing is sent
\* on the execution channel.
C31_DroppedStep ==
    /\ executor_call' # executor_call
    /\ executor_call'.op = "execute"
    /\ Size(active_executions) >= max_concurrent_executions
C31_DroppedAtCeiling ==
    [][C31_DroppedStep =>
        UNCHANGED <<active_executions, execution_channel, executor_send, next_uuid>>]_vars

\* An opportunity was dropped by an Executor whose single slot is taken.
C31_Witness ==
    /\ executor_call.op = "execute"
    /\ executor_call.before = "full"
    /\ max_concurrent_executions = 1
    /\ Size(active_executions) = 1
    /\ next_uuid = 1

\* C32: the Executor's tick changes no execution's status and removes only
\* entries that are Confirmed, Failed or Cancelled; a status changes only in
\* a cancel_execution or retry_execution call on that execution; and no
\* execution is ever Submitted or Confirmed.
C32_StatusStep ==
    \A id \in DOMAIN active_executions :
        /\ (id \in DOMAIN active_executions'
              /\ active_executions'[id].execution_status
                    # active_executions[id].execution_status)
              => (executor_call'.op \in {"cancel", "retry"} /\ executor_call'.id = id)
        /\ id \notin DOMAIN active_executions'
              => active_executions[id].execution_status \in {"Confirmed", "Failed", "Cancelled"}
C32_NeverAdvances ==
    /\ [][C32_StatusStep]_vars
    /\ [](\A id \in DOMAIN active_executions :
             active_executions[id].execution_status \notin {"Submitted", "Confirmed"})

\* Two executions were started; the tick removed the cancelled one and the
\* other is still in its initial status.
C32_Witness ==
    /\ next_uuid = 2
    /\ executor_call = NoCall
    /\ Size(active_executions) = 1
    /\ \A id \in DOMAIN active_executions :
          active_executions[id].execution_status = "Executing"

\* C33: when get_pools fails for some adapters the scan cycle still
\* completes (it does not panic and returns Ok), and what it emits is what
\* a cycle over the succeeding adapters alone emits; a cycle in which no
\* adapter returned pools emits nothing and returns Ok.
C33_Completed(result) == "panic" \notin DOMAIN result /\ result.result = "Ok"
C33_SomeFailed == \E a \in DOMAIN pure_call.get_pools : IsErr(pure_call.get_pools[a])
C33_Succeeded == SelectSeq(pure_call.get_pools, LAMBDA r : ~IsErr(r))
C33_PartialFailureTolerated ==
    (pure_call # NoPureCall /\ pure_call.fn = "scan_opportunities" /\ pure_result # <<>>)
        => LET result == pure_result[1]
               all_pools == AllPools(pure_call.get_pools)
           IN  /\ C33_SomeFailed
                    => /\ C33_Completed(result)
                       /\ \E token_pairs \in IterationOrders(GetTokenPairs(AllPools(C33_Succeeded))) :
                              result.sent = FindInAllPools(AllPools(C33_Succeeded), token_pairs,
                                                BasisPoints(pure_call.threshold), now)
               /\ all_pools = <<>>
                    => C33_Completed(result) /\ result.sent = <<>>

\* C34: in what one scan cycle emits, no two opportunities are built from
\* the same two pools.
C34_PoolCombination(o) == {o.buy_pool.id, o.sell_pool.id}
C34_OncePerPoolCombination ==
    (pure_call # NoPureCall /\ pure_call.fn = "scan_opportunities" /\ pure_result # <<>>
        /\ "panic" \notin DOMAIN pure_result[1])
        => \A i, j \in DOMAIN pure_result[1].sent :
               i # j => C34_PoolCombination(pure_result[1].sent[i])
                            # C34_PoolCombination(pure_result[1].sent[j])

\* C35: a call of add_strategy or update_strategy with a strategy whose
\* minimum profit threshold is not positive or whose set of DEXes is empty
\* leaves the Engine's strategy map and the Store's strategies as they were.
C35_FailsValidation(s) == s.min_profit_threshold <= 0 \/ s.supported_dexes = {}
C35_InvalidCall ==
    /\ pure_call' # pure_call
    /\ pure_call'.fn \in {"add_strategy", "update_strategy"}
    /\ C35_FailsValidation(pure_call'.strategy)
C35_InvalidNeverRegistered ==
    [][C35_InvalidCall => UNCHANGED <<strategies, store_strategies>>]_vars

\* C36: a send of process_opportunity on the execution channel, made while
\* the handler holds the active map's lock, eventually completes and the
\* Engine is back at its select!.
C36_SendCompletes == (engine_pc = "insert") ~> (engine_pc = "select")

\* C37: an opportunity built by ArbitrageOpportunity::new has net_profit 0,
\* and when the Engine receives an opportunity the Scanner sent, with a
\* configured threshold >= 0, it discards it: nothing is inserted into the
\* active map, saved or forwarded.
C37_ScannedReceived == found # <<>> /\ found' = Tail(found)
C37_ScannedNeverInserted ==
    /\ [](\A i \in DOMAIN found : found[i].net_profit = 0)
    /\ [][C37_ScannedReceived
            => /\ engine_pc' = "select"
               /\ last_discard' # "none"
               /\ UNCHANGED <<active_opportunities, store_opportunities, execution_channel,
                              next_uuid>>]_vars
C37_Witness ==
    /\ scan_pc = "sleep"
    /\ FindArbitrageOpportunities(pools, BasisPoints(scan_threshold), now) # <<>>
    /\ found = <<>>
    /\ last_discard = "unprofitable"
    /\ scan_threshold = 0
    /\ next_uuid = 0
    /\ active_opportunities = EmptyMap

\* C38: the operations of the Store take its locks in the order
\* opportunities, strategies, executions, metrics; while one is under way
\* some call can take a step (no deadlock), and every operation that was
\* started returns.
C38_Rank(l) ==
    CASE l = "opportunities" -> 1 [] l = "strategies" -> 2 [] l = "executions" -> 3
      [] l = "metrics" -> 4
C38_InOrder ==
    \A task \in DOMAIN store_calls : \A l \in StoreLocks :
        (\E h \in store_locks[l].held : h[1] = task) /\ ~HoldsAll(store_calls[task])
            => C38_Rank(l) < C38_Rank(NextLock(store_calls[task])[1])
C38_CanStep ==
    \/ \E task \in DOMAIN store_calls : HoldsAll(store_calls[task]) \/ ~store_calls[task].waits
    \/ \E l \in StoreLocks :
          /\ store_locks[l].waiting # <<>>
          /\ Compatible(NextLock(store_calls[Head(store_locks[l].waiting)])[2],
                        store_locks[l].held)
C38_ConsistentLockOrder ==
    /\ [](C38_InOrder)
    /\ [](store_calls # EmptyMap => C38_CanStep)
    /\ \A task \in StoreTasks :
          (task \in DOMAIN store_calls) ~> (task \notin DOMAIN store_calls)
C38_Witness ==
    /\ CleanupTask \in DOMAIN store_calls
    /\ store_calls[CleanupTask].acquired = 1
    /\ store_calls[CleanupTask].waits
    /\ \E task \in Callers :
          /\ task \in DOMAIN store_calls
          /\ store_calls[task].op = "get_storage_usage"
          /\ store_calls[task].acquired = 0
          /\ store_calls[task].waits
    /\ \E task \in Callers :
          /\ task \in DOMAIN store_calls
          /\ store_calls[task].op = "save_execution"
          /\ store_calls[task].acquired = 1

\* C39: the Store's running counters of executions, successes, profit and
\* fees equal what get_metrics computes from the Engine's execution
\* history, also once the Store has evicted or dropped executions.
C39_StoreDropped == Len(store_executions) < Len(executions)
C39_CountersAgree ==
    LET metrics == GetMetrics(active_opportunities, executions) IN
    /\ store_metrics.total_executions = metrics.executed_opportunities
    /\ store_metrics.successful_executions = metrics.successful_executions
    /\ store_metrics.total_profit = metrics.total_profit
    /\ store_metrics.total_fees = metrics.total_fees
C39_Witness ==
    /\ C39_StoreDropped
    /\ store_executions = <<>>
    /\ store_metrics.total_executions = MaxExecs
    /\ store_metrics.successful_executions > 0
    /\ store_metrics.total_profit > 0
    /\ store_metrics.total_fees > 0
====
